---- MODULE Spec2Model ----
(***************************************************************************)
(* State-machine model of the VaultSandbox Node client:                    *)
(*   - the envelope verification-and-decryption pipeline                   *)
(*     (crypto/signature.ts, crypto/decrypt.ts, utils/email-utils.ts),     *)
(*   - the stream (SSE) delivery strategy and the waits built on it,       *)
(*   - the polling delivery strategy.                                      *)
(* Six specifications share the module.  SpecCrypto runs the exported     *)
(* crypto functions on every envelope of a small universe.  Spec runs a    *)
(* client whose delivery strategy (stream, polling, or none) is fixed at   *)
(* construction, with one inbox, against a gateway that receives emails.   *)
(* SpecRegistry runs the stream strategy with two inboxes and room for a   *)
(* second EventSource object, with subscriptions and messages only.        *)
(* SpecBackoff runs the polling waitForEmail with its clock: timeout,      *)
(* backoff, jitter and the time requests and sleeps take.  SpecImport runs *)
(* createInbox and importInbox calls that may overlap on one client.       *)
(* SpecHistory runs waitForEmail of either strategy on an inbox that holds *)
(* its emails before the call.                                             *)
(***************************************************************************)
EXTENDS Integers, Sequences, FiniteSets, TLC

(***************************************************************************)
(* Part 1.  Envelope verification and decryption                           *)
(***************************************************************************)

VARIABLES
    cApi,      \* exported function being executed, or "idle"
    cEnvs,     \* the envelopes handed to the call (decryptEmailData: metadata, parsed)
    cIdx,      \* index in cEnvs of the envelope being processed
    cPc,       \* position inside the call
    cLog,      \* primitives invoked by the call so far: <<primitive, envelope index, result>>
    cKey,      \* shared secret / derived key held by the running decrypt
    cOut       \* "pending", a return value, or the class of the error thrown to the caller

cryptoVars == <<cApi, cEnvs, cIdx, cPc, cLog, cKey, cOut>>

VARIABLES
    strategyType, \* ClientConfig.strategy as resolved by createStrategy: "sse", "polling",
                  \* or "none" for an Inbox on which setStrategy was never called
    urlValid,     \* whether new EventSource(url) accepts the configured gateway URL
    mailbox,      \* gateway side: per inbox, the emails stored, in arrival order
    sse,          \* the fields of the SSEStrategy instance
    inflight,     \* handleMessage invocations suspended in decryptEmailData
    waits,        \* the waitForEmail and waitForEmailCount calls
    pollers,      \* the polling loops PollingStrategy.subscribe has started
    handles,      \* per inbox and caller's function: what the latest onNewEmail gave
    closed,       \* VaultSandboxClient.close() has returned
    delivered,    \* every callback invocation so far, in order: <<callback, email id>>
    exhausted,    \* where the "maximum retry attempts" SSEError was last thrown
    dropped,      \* the emails whose stream message handleMessage dropped because no
                  \* subscription had the message's inboxId
    client        \* the fields of the VaultSandboxClient: server key, tracked inboxes,
                  \* and the importInbox calls in progress

deliveryVars == <<strategyType, urlValid, mailbox, sse, inflight, waits, pollers, handles,
                  closed, delivered, exhausted, dropped, client>>

vars == <<cryptoVars, deliveryVars>>

\* Error classes (types/index.ts) and the foreign errors primitives throw.
SignatureVerificationError == "SignatureVerificationError"
DecryptionError == "DecryptionError"
ForeignErrors == {"Error", "TypeError", "OperationError", "SyntaxError"}

\* Signing keys: the gateway's and somebody else's.
SigKeys == {"server", "other"}

\* The encrypted content of an envelope (ct_kem, nonce, aad, ciphertext taken
\* together): to whom the KEM ciphertext was encapsulated, and what the
\* plaintext is.  "badlen" is a KEM ciphertext of the wrong length.
Bodies == [kem : {"mine", "foreign", "badlen"}, plain : {"json", "text"}]

\* buildTranscript: the concatenation of version, ciphersuite, context, the
\* content fields and the server signing key carried by the envelope.
buildTranscript(body, serverSigPk, context) == <<context, body, serverSigPk>>

HKDF_CONTEXT == "vaultsandbox:email:v1"

Transcripts == {buildTranscript(b, k, HKDF_CONTEXT) : b \in Bodies, k \in SigKeys}

\* A signature was made by some key over some transcript, or is malformed
\* bytes (signer "garbage").
Signatures == [signer : SigKeys \cup {"garbage"}, over : Transcripts]

\* EncryptedData.  wellFormed = FALSE: a byte field is missing (not a string).
Envelopes == [body : Bodies, server_sig_pk : SigKeys, sig : Signatures, wellFormed : BOOLEAN]

\* fromBase64Url: Buffer.from never rejects a string; a missing field makes
\* String.prototype.replace throw a TypeError.
fromBase64UrlThrows(env) == ~env.wellFormed

\* ml_dsa65.verify(signature, message, publicKey): "true", "false", or the
\* error class it throws (a signature of the wrong length).
ml_dsa65_verify(sig, transcript, pk) ==
    IF sig.signer = "garbage" THEN "Error"
    ELSE IF sig.signer = pk /\ sig.over = transcript THEN "true" ELSE "false"

\* The catch clause of verifySignature: whatever was thrown leaves as a
\* SignatureVerificationError.
VerifySignatureCatch_Rethrow(err) == err

VerifySignatureCatch(err) ==
    IF err = SignatureVerificationError THEN err ELSE SignatureVerificationError

\* What the !isValid branch of verifySignature does with a false result.
VerifySignatureOnFalse == VerifySignatureCatch(SignatureVerificationError)

\* verifySignature(encryptedData): <<primitive result or "none", outcome>>,
\* the outcome being "true" or the class of the error thrown.
verifySignature(env) ==
    IF fromBase64UrlThrows(env) THEN <<"none", VerifySignatureCatch("TypeError")>>
    ELSE LET r == ml_dsa65_verify(env.sig,
                                  buildTranscript(env.body, env.server_sig_pk, HKDF_CONTEXT),
                                  env.server_sig_pk)
         IN  IF r = "true" THEN <<r, "true">>
             ELSE IF r = "false" THEN <<r, VerifySignatureOnFalse>>
             ELSE <<r, VerifySignatureCatch(r)>>

\* ml_kem768.decapsulate(ctKem, secretKey): the shared secret, or an error
\* for a ciphertext of the wrong length.  A ciphertext made for another key
\* decapsulates to an unrelated secret (implicit rejection).
ml_kem768_decapsulate(body) ==
    CASE body.kem = "mine"    -> "ss_sender"
      [] body.kem = "foreign" -> "ss_other"
      [] OTHER                -> "Error"

\* deriveKey(ikm, context, aad, ctKem): HKDF over the secret, salted with the
\* digest of the KEM ciphertext, the context and aad as info.
deriveKey(ikm, context, body) == [ikm |-> ikm, info |-> context, salt |-> body.kem]

\* The decrypt call holds no secret, or the shared secret before derivation.
NoKey == [ikm |-> "none", info |-> "none", salt |-> "none"]
SharedSecret(ss) == [ikm |-> ss, info |-> "none", salt |-> "none"]

\* crypto.subtle.decrypt (AES-GCM): the plaintext, or OperationError when the
\* tag does not verify under the key.
aesGcmDecrypt(key, body) ==
    IF key = deriveKey("ss_sender", HKDF_CONTEXT, body) THEN body.plain ELSE "OperationError"

\* JSON.parse of the decoded plaintext (decryptMetadata).
jsonParseThrows(plain) == plain # "json"

\* The catch clause of decrypt.
DecryptCatch_Rethrow(err) == err

DecryptCatch(err) ==
    IF err = SignatureVerificationError THEN err
    ELSE IF err = DecryptionError THEN err
    ELSE DecryptionError

\* Where decrypt goes after its verifySignature call: on to decapsulation,
\* or to the catch clause.
DecryptAfterVerify_Ignore(outcome) == "decap"

DecryptAfterVerify(outcome) == IF outcome = "true" THEN "decap" ELSE "throw"

\* The catch clause of decryptMetadata around TextDecoder/JSON.parse.
DecryptMetadataCatch(err) == DecryptionError

Apis == {"verifySignature", "decrypt", "decryptMetadata", "decryptParsed", "decryptRaw",
         "decryptEmailData"}

\* Envelope arguments of a call: one, or for decryptEmailData the metadata
\* envelope alone or followed by the parsed-content envelope.
EnvArgs(api) ==
    IF api = "decryptEmailData"
    THEN {<<e>> : e \in Envelopes} \cup
         {<<m, p>> : m \in {e \in Envelopes : verifySignature(e)[2] = "true" /\ e.body.kem = "mine"
                                               /\ e.body.plain = "json" /\ e.server_sig_pk = "server"},
                     p \in Envelopes}
    ELSE {<<e>> : e \in Envelopes}

CryptoInit ==
    /\ cApi = "idle"
    /\ cEnvs = <<>>
    /\ cIdx = 0
    /\ cPc = "idle"
    /\ cLog = <<>>
    /\ cKey = NoKey
    /\ cOut = "pending"

\* A caller invokes one of the exported functions.
CallApi(api, envs) ==
    /\ UNCHANGED deliveryVars
    /\ cApi = "idle"
    /\ cApi' = api
    /\ cEnvs' = envs
    /\ cIdx' = 1
    /\ cPc' = IF api = "decryptEmailData" THEN "preverify" ELSE "verify"
    /\ cLog' = <<>>
    /\ cKey' = NoKey
    /\ cOut' = "pending"

\* decryptEmailData lines 26 and 35: verifySignature before decryptMetadata
\* or decryptParsed.  Its error is not caught.
StepPreVerify ==
    /\ UNCHANGED deliveryVars
    /\ cPc = "preverify"
    /\ LET v == verifySignature(cEnvs[cIdx]) IN
       /\ cLog' = Append(cLog, <<"verify", cIdx, v[1]>>)
       /\ IF v[2] = "true"
          THEN cPc' = "verify" /\ cOut' = cOut
          ELSE cPc' = "done" /\ cOut' = v[2]
    /\ UNCHANGED <<cApi, cEnvs, cIdx, cKey>>

\* verifySignature itself, or the first statement of decrypt.
StepVerify ==
    /\ UNCHANGED deliveryVars
    /\ cPc = "verify"
    /\ LET v == verifySignature(cEnvs[cIdx]) IN
       /\ cLog' = Append(cLog, <<"verify", cIdx, v[1]>>)
       /\ IF cApi = "verifySignature"
          THEN cPc' = "done" /\ cOut' = v[2]
          ELSE IF DecryptAfterVerify(v[2]) = "decap"
               THEN cPc' = "decap" /\ cOut' = cOut
               ELSE cPc' = "done" /\ cOut' = DecryptCatch(v[2])
    /\ UNCHANGED <<cApi, cEnvs, cIdx, cKey>>

\* decrypt lines 28-34: decode the fields, decapsulate.
StepDecap ==
    /\ UNCHANGED deliveryVars
    /\ cPc = "decap"
    /\ IF fromBase64UrlThrows(cEnvs[cIdx])
       THEN /\ cPc' = "done" /\ cOut' = DecryptCatch("TypeError")
            /\ UNCHANGED <<cLog, cKey>>
       ELSE LET ss == ml_kem768_decapsulate(cEnvs[cIdx].body) IN
            /\ cLog' = Append(cLog, <<"decapsulate", cIdx, ss>>)
            /\ IF ss \in ForeignErrors
               THEN cPc' = "done" /\ cOut' = DecryptCatch(ss) /\ cKey' = cKey
               ELSE cPc' = "derive" /\ cOut' = cOut /\ cKey' = SharedSecret(ss)
    /\ UNCHANGED <<cApi, cEnvs, cIdx>>

\* decrypt line 37: deriveKey.
StepDerive ==
    /\ UNCHANGED deliveryVars
    /\ cPc = "derive"
    /\ cKey' = deriveKey(cKey.ikm, HKDF_CONTEXT, cEnvs[cIdx].body)
    /\ cLog' = Append(cLog, <<"deriveKey", cIdx, "key">>)
    /\ cPc' = "aead"
    /\ UNCHANGED <<cApi, cEnvs, cIdx, cOut>>

\* A helper's work on the plaintext decrypt returned, up to the return to
\* the caller: <<next pc, outcome, next envelope index>>.
AfterDecrypt(api, plain, idx, n) ==
    IF api = "decrypt" \/ api = "decryptRaw" THEN <<"done", "ok", idx>>
    ELSE IF jsonParseThrows(plain) THEN <<"done", DecryptMetadataCatch("SyntaxError"), idx>>
    ELSE IF api = "decryptEmailData" /\ idx < n THEN <<"preverify", "pending", idx + 1>>
    ELSE <<"done", "ok", idx>>

\* decrypt lines 48-69: AES-GCM decryption, then the helper's parsing.
StepAead ==
    /\ UNCHANGED deliveryVars
    /\ cPc = "aead"
    /\ LET p == aesGcmDecrypt(cKey, cEnvs[cIdx].body) IN
       /\ cLog' = Append(cLog, <<"aesGcmDecrypt", cIdx, p>>)
       /\ IF p \in ForeignErrors
          THEN cPc' = "done" /\ cOut' = DecryptCatch(p) /\ cIdx' = cIdx
          ELSE LET a == AfterDecrypt(cApi, p, cIdx, Len(cEnvs)) IN
               cPc' = a[1] /\ cOut' = a[2] /\ cIdx' = a[3]
    /\ cKey' = NoKey
    /\ UNCHANGED <<cApi, cEnvs>>

\* The caller receives the result; the next call can start.
CallReturns ==
    /\ UNCHANGED deliveryVars
    /\ cPc = "done"
    /\ cApi' = "idle"
    /\ cPc' = "idle"
    /\ cEnvs' = <<>>
    /\ cIdx' = 0
    /\ cLog' = <<>>
    /\ cKey' = NoKey
    /\ cOut' = "pending"

CryptoNext ==
    \/ \E api \in {a \in Apis : cApi = "idle"} : \E envs \in EnvArgs(api) : CallApi(api, envs)
    \/ StepPreVerify
    \/ StepVerify
    \/ StepDecap
    \/ StepDerive
    \/ StepAead
    \/ CallReturns

(***************************************************************************)
(* Part 2.  Delivery: gateway, stream strategy, waits                      *)
(***************************************************************************)

\* ---- bounds of the model ----
MaxEmails == 2      \* emails the gateway receives in a run
MaxWaits == 1       \* waitForEmail / waitForEmailCount calls in a run
MaxConns == 1       \* EventSource objects open at the same time in Spec; a
                    \* step that would need one more is outside the model
RegistryConns == 2  \* the same for SpecRegistry
RegistryEmails == 1 \* emails the gateway receives in a run of SpecRegistry
NumUserFns == 1     \* distinct functions callers pass to onNewEmail
maxReconnectAttempts == 1   \* SSEConfig.maxReconnectAttempts of the modelled client
RegistryAttempts == 2       \* the same for SpecRegistry

\* ---- program constants ----
reconnectInterval == 5000
backoffMultiplier == 2

Inboxes == {"a", "b"}

\* The inboxes the client of Spec has created.
Created == {"a"}

\* Inbox.inboxHash, the routing key of stream messages.
InboxHash(i) == IF i = "a" THEN "ha" ELSE "hb"

RECURSIVE Pow(_, _)
Pow(b, n) == IF n = 0 THEN 1 ELSE b * Pow(b, n - 1)

Range(f) == {f[k] : k \in DOMAIN f}

\* Array.filter keeping the order.
RECURSIVE Without(_, _)
Without(seq, x) ==
    IF seq = <<>> THEN <<>>
    ELSE IF Head(seq) = x THEN Without(Tail(seq), x)
    ELSE <<Head(seq)>> \o Without(Tail(seq), x)

\* ---- emails and what decrypting them yields ----

\* The envelopes the gateway serves: one genuinely signed and encrypted to
\* the inbox, one whose signature was made over different content.
GenuineBody == [kem |-> "mine", plain |-> "json"]
OtherBody == [kem |-> "mine", plain |-> "text"]
EnvelopeOf(tag) ==
    [body |-> GenuineBody, server_sig_pk |-> "server", wellFormed |-> TRUE,
     sig |-> [signer |-> "server",
              over |-> buildTranscript(IF tag = "genuine" THEN GenuineBody ELSE OtherBody,
                                       "server", HKDF_CONTEXT)]]

\* decrypt(encryptedData, keypair) as a function of the envelope: the
\* plaintext, or the class of the error thrown.
decrypt(env) ==
    LET v == verifySignature(env) IN
    IF DecryptAfterVerify(v[2]) # "decap" THEN DecryptCatch(v[2])
    ELSE IF fromBase64UrlThrows(env) THEN DecryptCatch("TypeError")
    ELSE LET ss == ml_kem768_decapsulate(env.body) IN
         IF ss \in ForeignErrors THEN DecryptCatch(ss)
         ELSE LET p == aesGcmDecrypt(deriveKey(ss, HKDF_CONTEXT, env.body), env.body) IN
              IF p \in ForeignErrors THEN DecryptCatch(p) ELSE p

\* decryptMetadata: decrypt, then JSON.parse.
decryptMetadata(env) ==
    LET p == decrypt(env) IN
    IF p \notin {"json", "text"} THEN p
    ELSE IF jsonParseThrows(p) THEN DecryptMetadataCatch("SyntaxError") ELSE "ok"

\* decryptEmailData once the email data is at hand: verifySignature, then
\* decryptMetadata.  "ok" or the class of the error thrown.
decryptEmailData(env) ==
    LET v == verifySignature(env) IN
    IF v[2] # "true" THEN v[2] ELSE decryptMetadata(env)

\* Subjects and senders are short strings over a two-letter alphabet.
EmailKinds ==
    { [subject |-> <<"R">>, from |-> <<"x">>, env |-> "genuine"],
      [subject |-> <<"W", "R">>, from |-> <<"x">>, env |-> "genuine"],
      [subject |-> <<"R">>, from |-> <<"y">>, env |-> "tampered"] }

\* All emails the gateway holds, and the one with a given id.
AllEmails == UNION {Range(mailbox[i]) : i \in Inboxes}
EmailById(n) == CHOOSE e \in AllEmails : e.id = n

\* String.prototype.includes.
StringIncludes(str, sub) ==
    \E k \in 0..(Len(str) - Len(sub)) : SubSeq(str, k + 1, k + Len(sub)) = sub

\* RegExp.prototype.test for a literal pattern, anchored at the start or not.
RegExpTest(re, str) ==
    IF re.anchored
    THEN Len(str) >= Len(re.pat) /\ SubSeq(str, 1, Len(re.pat)) = re.pat
    ELSE StringIncludes(str, re.pat)

NoMatcher == [kind |-> "absent", pat |-> <<>>, anchored |-> FALSE]
StringMatcher(p) == [kind |-> "string", pat |-> p, anchored |-> FALSE]
RegExpMatcher(p, anch) == [kind |-> "regexp", pat |-> p, anchored |-> anch]

\* One of the subject / from blocks of matchesFilters: does it let the
\* value through.
FilterPasses(m, str) ==
    CASE m.kind = "absent" -> TRUE
      [] m.kind = "string" -> m.pat = <<>> \/ StringIncludes(str, m.pat)
      [] OTHER             -> RegExpTest(m, str)

\* options.predicate, a caller's function: absent, or one that accepts every
\* email but the first the gateway received.
PredicatePasses(pred, email) ==
    CASE pred = "absent" -> TRUE
      [] OTHER           -> email.id > 1

\* How matchesFilters combines the three checks.
MatchesFiltersCombine_Any(s, f, p) == s \/ f \/ p

MatchesFiltersCombine(s, f, p) == s /\ f /\ p

matchesFilters(email, options) ==
    MatchesFiltersCombine(FilterPasses(options.subject, email.subject),
                          FilterPasses(options.from, email.from),
                          PredicatePasses(options.predicate, email))

\* The WaitOptions callers pass.
WaitOptionsSet ==
    { [subject |-> NoMatcher, from |-> NoMatcher, predicate |-> "absent"],
      [subject |-> RegExpMatcher(<<"R">>, TRUE), from |-> StringMatcher(<<"x">>),
       predicate |-> "notFirst"] }

\* findMatchingEmail: the first email of the list that matches, or NoEmail.
NoEmail == [id |-> 0, subject |-> <<>>, from |-> <<>>, env |-> "none"]

RECURSIVE findMatchingEmail(_, _)
findMatchingEmail(emails, options) ==
    IF emails = <<>> THEN NoEmail
    ELSE IF matchesFilters(Head(emails), options) THEN Head(emails)
    ELSE findMatchingEmail(Tail(emails), options)

\* ---- the SSEStrategy instance ----

\* Callbacks are function objects: the functions callers pass to onNewEmail,
\* and the closure each waitForEmail call creates.
UserCb(f) == <<"u", f>>
WaitCb(w) == <<"w", w>>

NoSub == [present |-> FALSE, callbacks |-> <<>>]
ClosedConn == [state |-> "closed", hashes |-> {}]

\* The strategy after its constructor.  conns are the EventSource objects
\* the strategy has created (a closed one frees its slot); eventSource is
\* the slot the field of that name refers to, 0 for null.  reconnectTimer
\* is the delay of the armed timer, 0 when none is armed.  thrown and
\* overflow are not fields: they carry an exception, and the lack of a free
\* slot, out of the operators below.
NewStrategy ==
    [eventSource |-> 0,
     conns |-> [c \in 1..MaxConns |-> ClosedConn],
     subscriptions |-> [i \in Inboxes |-> NoSub],
     maxReconnectAttempts |-> maxReconnectAttempts,
     reconnectAttempts |-> 0,
     reconnectTimer |-> 0,
     isClosing |-> FALSE,
     thrown |-> "none",
     overflow |-> FALSE]

FreeSlots(S) == {c \in DOMAIN S.conns : S.conns[c].state = "closed"}
LiveConns(S) == {c \in DOMAIN S.conns : S.conns[c].state # "closed"}

\* The hashes connect() puts in the URL: those of the registered
\* subscriptions, empty ones filtered out.
SubscribedHashes(S) ==
    {InboxHash(i) : i \in {j \in Inboxes : S.subscriptions[j].present}} \ {""}

\* disconnect()
disconnect(S) ==
    [S EXCEPT !.reconnectTimer = 0,
              !.conns = IF S.eventSource # 0
                        THEN [@ EXCEPT ![S.eventSource] = ClosedConn]
                        ELSE @,
              !.eventSource = 0]

\* handleConnectionError scheduling a reconnection whatever the counter is.
RetryOrThrow_Unbounded(D) ==
    [D EXCEPT !.reconnectTimer =
                  reconnectInterval * Pow(backoffMultiplier, D.reconnectAttempts)]

\* The branch of handleConnectionError once the connection is torn down.
RetryOrThrow(D) ==
    IF D.reconnectAttempts < D.maxReconnectAttempts
    THEN [D EXCEPT !.reconnectTimer =
                       reconnectInterval * Pow(backoffMultiplier, D.reconnectAttempts)]
    ELSE [D EXCEPT !.thrown = "SSEError"]

\* handleConnectionError()
handleConnectionError(S) ==
    IF S.isClosing THEN S ELSE RetryOrThrow(disconnect(S))

\* connect(): a new EventSource in a free slot, or, when the constructor
\* throws, handleConnectionError.
connect(S) ==
    IF S.isClosing THEN S
    ELSE IF \A i \in Inboxes : ~S.subscriptions[i].present THEN S
    ELSE IF SubscribedHashes(S) = {} THEN S
    ELSE IF ~urlValid THEN handleConnectionError(S)
    ELSE IF FreeSlots(S) = {} THEN [S EXCEPT !.overflow = TRUE]
    ELSE LET c == CHOOSE x \in FreeSlots(S) : \A y \in FreeSlots(S) : x <= y IN
         [S EXCEPT !.conns[c] = [state |-> "connecting", hashes |-> SubscribedHashes(S)],
                   !.eventSource = c]

\* reconnect()
reconnect(S) == connect(disconnect(S))

\* Set.prototype.add on the callbacks of a subscription.
AddCallback(cbs, cb) == IF cb \in Range(cbs) THEN cbs ELSE Append(cbs, cb)

\* subscribe(emailAddress, inboxHash, keypair, callback) up to its return,
\* or to the exception that leaves it (thrown).
subscribe(S, i, cb) ==
    LET S1 == [S EXCEPT !.subscriptions[i] =
                            [present |-> TRUE, callbacks |-> AddCallback(@.callbacks, cb)]]
    IN  IF S1.eventSource = 0 \/ S1.conns[S1.eventSource].state = "closed"
        THEN connect(S1)
        ELSE reconnect(S1)

\* The unsubscribe closure returned by subscribe.
unsubscribe(S, i, cb) ==
    IF ~S.subscriptions[i].present THEN S
    ELSE LET cbs == Without(S.subscriptions[i].callbacks, cb) IN
         IF cbs # <<>> THEN [S EXCEPT !.subscriptions[i].callbacks = cbs]
         ELSE LET S1 == [S EXCEPT !.subscriptions[i] = NoSub] IN
              IF \A j \in Inboxes : ~S1.subscriptions[j].present
              THEN disconnect(S1)
              ELSE reconnect(S1)

\* close()
close(S) ==
    [disconnect([S EXCEPT !.isClosing = TRUE]) EXCEPT
        !.subscriptions = [i \in Inboxes |-> NoSub]]

\* ---- handleMessage invocations in flight ----

\* A handleMessage invocation suspended in decryptEmailData holds the
\* subscription object it looked up.  While that object is the one in the
\* map (live), its callbacks are read from the map when the invocation
\* resumes; once the object has left the map, nothing changes it any more
\* and the invocation keeps the callbacks it had at that moment.
InFlight(email, i, c) ==
    [email |-> email.id, inbox |-> i, conn |-> c, live |-> TRUE, callbacks |-> <<>>]

\* Subscription objects that left the map in a step: every unsubscribe path
\* deletes the object when its callbacks are empty.
OrphanDeleted(infl, old, new) ==
    { IF m.live /\ old.subscriptions[m.inbox].present /\ ~new.subscriptions[m.inbox].present
      THEN [m EXCEPT !.live = FALSE, !.callbacks = <<>>]
      ELSE m : m \in infl }

\* close() clears the map and leaves the objects as they are.
OrphanAll(infl, old) ==
    { IF m.live
      THEN [m EXCEPT !.live = FALSE, !.callbacks = old.subscriptions[m.inbox].callbacks]
      ELSE m : m \in infl }

\* ---- the waits: waitForEmail and waitForEmailCount calls ----

\* The callback Inbox.waitForEmailCount passes to onNewEmail.
CountCb(w) == <<"c", w>>

\* ---- the clock of a polling wait ----

\* Times are counted in sixteenths of a millisecond, which keeps the products
\* by backoffMultiplier (1.5) and by jitterFactor (0.3) whole numbers.
Ms(x) == x * 16

Min(a, b) == IF a < b THEN a ELSE b

\* PollingConfig defaults.
initialInterval == 2000
maxBackoff == 30000

\* x * backoffMultiplier of the polling strategy (1.5).
TimesBackoffMultiplier(x) == (x * 3) \div 2

\* Math.random() * jitterFactor * currentBackoff for Math.random() = r / 10
\* and jitterFactor 0.3.
Jitter(r, currentBackoff) == (r * 3 * currentBackoff) \div 100

\* The times of one PollingStrategy.waitForEmail call.  timed: the call's
\* times are tracked (SpecBackoff); otherwise only whether time has run out
\* is, and the record stays as it is.  elapsed is Date.now() - startTime at
\* the last point the call ran; emailsHash is syncStatus.emailsHash of the
\* running iteration.  interval, changed and idle record, for the last sleep,
\* the backoff it was computed from, whether the iteration has reset the
\* backoff, and the iterations in a row that have not.
NoClock ==
    [timed |-> FALSE, maxBackoff |-> 0, timeout |-> 0, pollInterval |-> 0, elapsed |-> 0,
     emailsHash |-> -1, currentBackoff |-> 0, waitTime |-> 0, interval |-> 0,
     changed |-> FALSE, idle |-> 0]

\* One call.  kind is "email" (waitForEmail) or "count" (waitForEmailCount);
\* state is "free" (not called yet), "syncing" (waitForEmailCount awaiting its
\* first getSyncStatus), "pending" or "settled".  timer: the timeout timer is
\* armed.  resolved: the flag of that name in SSEStrategy.waitForEmail.
\* subscribed: the `subscription` variable of the call holds a handle.
\* checks: getSyncStatus calls of the count callback in flight.  pc and
\* lastHash belong to the loop of PollingStrategy.waitForEmail; the hash of
\* the email list is modelled by the list's length, -1 for null.  zero: the
\* call was made with timeout 0.
FreeWait ==
    [state |-> "free", kind |-> "email", inbox |-> CHOOSE i \in Created : TRUE,
     options |-> CHOOSE o \in WaitOptionsSet : TRUE, count |-> 0,
     timer |-> FALSE, resolved |-> FALSE, subscribed |-> FALSE, outcome |-> "none",
     email |-> 0, checks |-> 0, pc |-> "none", lastHash |-> -1, zero |-> FALSE,
     clock |-> NoClock]

\* Settling a promise: resolve and reject act only on a pending promise.
Settle(wt, outcome, emailId) ==
    IF wt.state = "pending"
    THEN [wt EXCEPT !.state = "settled", !.outcome = outcome, !.email = emailId]
    ELSE wt

\* What the wait's callback does with the timer once an email matched.
ClearOnMatch(armed) == FALSE

\* The world the callbacks of a fan-out run in.  escaped: an exception that
\* left a callback invocation and ended the loop over the callbacks.
World(S, W, D) == [sse |-> S, waits |-> W, delivered |-> D, escaped |-> "none"]

\* What the function a caller passed to onNewEmail does with an email: it
\* returns, throws, or returns a promise that rejects.  The callers of the
\* model have functions that fail on emails whose subject starts with "W".
UserFnResult(f, email) ==
    IF Head(email.subject) # "W" THEN "returns"
    ELSE IF email.id = 1 THEN "throws"
    ELSE "rejects"

\* The callback waitForEmail registers, invoked with an email.
WaitCallback(Wd, w, email) ==
    LET wt == Wd.waits[w] IN
    IF wt.resolved THEN Wd
    ELSE IF ~matchesFilters(email, wt.options) THEN Wd
    ELSE LET marked == [wt EXCEPT !.resolved = TRUE, !.timer = ClearOnMatch(@)] IN
         IF ~wt.subscribed
         THEN \* `subscription` was never initialised: ReferenceError, which
              \* the fan-out's result.catch swallows
              [Wd EXCEPT !.waits[w] = marked]
         ELSE LET R == unsubscribe(Wd.sse, wt.inbox, WaitCb(w)) IN
              IF R.thrown # "none"
              THEN \* unsubscribe threw: resolve is never reached
                   [Wd EXCEPT !.waits[w] = marked, !.sse = [R EXCEPT !.thrown = "none"]]
              ELSE [Wd EXCEPT !.waits[w] = Settle(marked, "email", email.id), !.sse = R]

\* The callback of waitForEmailCount up to its first await: it starts a
\* getSyncStatus call.
CountCallback(Wd, w) == [Wd EXCEPT !.waits[w].checks = @ + 1]

\* What leaves an unguarded callback invocation: a synchronous throw.
GuardedCall_Unguarded(result) == IF result = "throws" THEN "Error" ELSE "none"

\* What leaves the try/catch and the result.catch around a callback
\* invocation: nothing, the error is logged.
GuardedCall(result) == "none"

\* One callback invocation, as handleMessage and the polling loop make it.
\* The callbacks of the waits are async functions: they never throw.
Invoke(Wd, cb, email) ==
    LET W1 == [Wd EXCEPT !.delivered = Append(@, <<cb, email.id>>)] IN
    IF cb[1] = "w" THEN WaitCallback(W1, cb[2], email)
    ELSE IF cb[1] = "c" THEN CountCallback(W1, cb[2])
    ELSE [W1 EXCEPT !.escaped = GuardedCall(UserFnResult(cb[2], email))]

\* subscription.callbacks.forEach in handleMessage: every callback of the
\* set, in insertion order.  Callers' functions do not touch the strategy.
RECURSIVE FanOut_Reversed(_, _, _, _)
FanOut_Reversed(Wd, cbs, k, email) ==
    IF k > Len(cbs) THEN Wd
    ELSE Invoke(FanOut_Reversed(Wd, cbs, k + 1, email), cbs[k], email)

RECURSIVE FanOut(_, _, _, _)
FanOut(Wd, cbs, k, email) ==
    IF k > Len(cbs) \/ Wd.escaped # "none" THEN Wd
    ELSE FanOut(Invoke(Wd, cbs[k], email), cbs, k + 1, email)

\* ---- polling loops ----

\* PollingStrategy.subscribe keeps its state in the closure of one call:
\* isActive, seenEmails, and the position of the loop (pc): "fetch" while
\* listEmails and the decryption are awaited, "sleep" between two ticks,
\* "done" once the loop has ended, "none" before the call.  failed is not a
\* variable of the code: the emails on which decryptEmails of the loop has
\* thrown so far.
PollerKeys == Inboxes \X ({UserCb(f) : f \in 1..NumUserFns} \cup {CountCb(w) : w \in 1..MaxWaits})
NoPoller == [pc |-> "none", isActive |-> FALSE, seenEmails |-> {}, failed |-> {}]

\* poll() runs up to its first await inside subscribe.
StartPoller == [pc |-> "fetch", isActive |-> TRUE, seenEmails |-> {}, failed |-> {}]

\* ---- initial state ----

\* Where the last SSEError of handleConnectionError went.  "handler": out of
\* an event or timer handler, where nothing catches it; pending are the waits
\* that were pending then.  "caller": out of a public operation, to its
\* caller.  "missed": out of a handler, and the next subscribe or wait of the
\* caller succeeded.
NoExhaustion == [where |-> "none", pending |-> {}]

HandleKeys == Inboxes \X (1..NumUserFns)

\* ---- the VaultSandboxClient instance ----

MaxImports == 2     \* importInbox calls in a run
MaxCreates == 2     \* createInbox calls in a run

\* The ExportedInboxData objects handed to importInbox: the address, whether
\* the required fields, timestamps and keys are well-formed, and whether
\* serverSigPk is the key of the client's server.
ImportDataSet ==
    [emailAddress : Inboxes, fields : {"ok", "invalid"}, serverSigPk : {"server", "other"}]

\* Inbox objects are told apart by the call that made them: createInbox for
\* the address, or the importInbox call numbered `call`.
NoInbox == [by |-> "none", call |-> 0]

\* The client once createInbox has returned for the addresses of T; a client
\* on which nothing was called yet has not fetched the server key and has
\* no strategy.  An importInbox call is "idle" (not made), "initializing"
\* (suspended in await ensureInitialized()) or "done"; a createInbox call
\* is "idle", "initializing", "creating" (suspended in await
\* apiClient.createInbox) or "done".  fetch: the call's ensureInitialized
\* found no server key and awaits getServerInfo.  The strategy instances
\* are numbered in the order createStrategy() makes them: strategies counts
\* them, strategy is the one the field this.strategy refers to (0 for
\* null), closedStrategies are those close() was called on, and bound is
\* the one setStrategy gave to the Inbox a call returned.
NewClient(T) ==
    [serverPublicKey |-> (T # {}),
     inboxes |-> [i \in Inboxes |->
                     IF i \in T THEN [by |-> "createInbox", call |-> 0] ELSE NoInbox],
     imports |-> [c \in 1..MaxImports |->
                     [pc |-> "idle", data |-> CHOOSE d \in ImportDataSet : TRUE,
                      outcome |-> "none", fetch |-> FALSE, bound |-> 0]],
     creates |-> [c \in 1..MaxCreates |->
                     [pc |-> "idle", outcome |-> "none", fetch |-> FALSE, bound |-> 0]],
     strategy |-> IF T # {} THEN 1 ELSE 0,
     strategies |-> IF T # {} THEN 1 ELSE 0,
     closedStrategies |-> {}]

\* ensureInitialized() once getServerInfo has answered: the key is stored
\* and this.strategy is set to a new instance.
ensureInitialized(C) ==
    [C EXCEPT !.serverPublicKey = TRUE, !.strategies = @ + 1, !.strategy = C.strategies + 1]

DeliveryInit ==
    /\ strategyType \in {"sse", "polling", "none"}
    /\ urlValid \in IF strategyType = "sse" THEN BOOLEAN ELSE {TRUE}
    /\ mailbox = [i \in Inboxes |-> <<>>]
    /\ sse = NewStrategy
    /\ inflight = {}
    /\ waits = [w \in 1..MaxWaits |-> FreeWait]
    /\ pollers = [k \in PollerKeys |-> NoPoller]
    /\ handles = [k \in HandleKeys |-> "none"]
    /\ closed = FALSE
    /\ delivered = <<>>
    /\ exhausted = NoExhaustion
    /\ dropped = {}
    /\ client = NewClient(Created)

\* The delivery layer of a process that only uses the crypto functions.
DeliveryQuiet ==
    /\ strategyType = "none"
    /\ urlValid = TRUE
    /\ mailbox = [i \in Inboxes |-> <<>>]
    /\ sse = NewStrategy
    /\ inflight = {}
    /\ waits = [w \in 1..MaxWaits |-> FreeWait]
    /\ pollers = [k \in PollerKeys |-> NoPoller]
    /\ handles = [k \in HandleKeys |-> "none"]
    /\ closed = FALSE
    /\ delivered = <<>>
    /\ exhausted = NoExhaustion
    /\ dropped = {}
    /\ client = NewClient({})

PendingWaits == {w \in 1..MaxWaits : waits[w].state = "pending"}

\* An SSEError that left handleConnectionError inside an event or timer
\* handler: nothing catches it there.
ThrownInHandler == [where |-> "handler", pending |-> PendingWaits]
ThrownToCaller == [where |-> "caller", pending |-> {}]

\* A subscribe or a wait of the caller returned normally.
OpSucceeded == IF exhausted.where = "handler" THEN [exhausted EXCEPT !.where = "missed"]
               ELSE exhausted

\* ---- the gateway ----

\* The lookup of handleMessage: the subscriptions whose inboxHash is the
\* message's inboxId.
FindSubscription_Any(S, inboxId) ==
    {i \in Inboxes : InboxHash(i) = inboxId}

FindSubscription(S, inboxId) ==
    {i \in Inboxes : S.subscriptions[i].present /\ InboxHash(i) = inboxId}

\* An email reaches inbox i.  The gateway stores it and announces it on
\* every open connection that asked for the inbox; each announcement starts
\* a handleMessage, which returns at once unless a subscription has the
\* inbox's hash, and is suspended in decryptEmailData otherwise.
GatewayEmail(i, kind) ==
    /\ Cardinality(AllEmails) < MaxEmails
    /\ LET e == [id |-> Cardinality(AllEmails) + 1, subject |-> kind.subject,
                 from |-> kind.from, env |-> kind.env]
           on == {c \in LiveConns(sse) : /\ sse.conns[c].state = "open"
                                         /\ InboxHash(i) \in sse.conns[c].hashes}
           found == strategyType = "sse" /\ FindSubscription(sse, InboxHash(i)) # {}
       IN  /\ mailbox' = [mailbox EXCEPT ![i] = Append(@, e)]
           /\ inflight' = IF found THEN inflight \cup {InFlight(e, i, c) : c \in on}
                          ELSE inflight
           /\ dropped' = IF on # {} /\ ~found THEN dropped \cup {e.id} ELSE dropped
    /\ UNCHANGED <<client, strategyType, urlValid, sse, waits, pollers, handles, closed, delivered,
                   exhausted>>
    /\ UNCHANGED cryptoVars

\* ---- EventSource events ----

\* onopen
OnOpen(c) ==
    /\ strategyType = "sse"
    /\ sse.conns[c].state = "connecting"
    /\ sse' = [sse EXCEPT !.conns[c].state = "open", !.reconnectAttempts = 0]
    /\ UNCHANGED <<client, dropped, strategyType, urlValid, mailbox, inflight, waits, pollers, handles, closed,
                   delivered, exhausted>>
    /\ UNCHANGED cryptoVars

\* onerror on a connection that is not closed.  The EventSource either
\* gives up (fatal) or goes back to connecting on its own; then the handler
\* runs handleConnectionError.
OnError(c, fatal) ==
    /\ strategyType = "sse"
    /\ sse.conns[c].state # "closed"
    /\ LET S1 == [sse EXCEPT !.conns[c] =
                      IF fatal THEN ClosedConn ELSE [@ EXCEPT !.state = "connecting"]]
           R == handleConnectionError(S1)
       IN  /\ sse' = [R EXCEPT !.thrown = "none"]
           /\ exhausted' = IF R.thrown # "none" THEN ThrownInHandler ELSE exhausted
    /\ UNCHANGED <<client, dropped, strategyType, urlValid, mailbox, inflight, waits, pollers, handles, closed,
                   delivered>>
    /\ UNCHANGED cryptoVars

\* The reconnect timer fires: reconnectAttempts++, connect().
ReconnectTimerFires ==
    /\ strategyType = "sse"
    /\ sse.reconnectTimer # 0
    /\ LET R == connect([sse EXCEPT !.reconnectTimer = 0, !.reconnectAttempts = @ + 1])
       IN  /\ ~R.overflow
           /\ sse' = [R EXCEPT !.thrown = "none"]
           /\ exhausted' = IF R.thrown # "none" THEN ThrownInHandler ELSE exhausted
    /\ UNCHANGED <<client, dropped, strategyType, urlValid, mailbox, inflight, waits, pollers, handles, closed,
                   delivered>>
    /\ UNCHANGED cryptoVars

\* ---- handleMessage ----

\* decryptEmailData fails: the fetch of the full email fails, or the
\* envelope does not verify or decrypt.  handleMessage throws an SSEError,
\* which onmessage catches and logs.
HandleMessageFails(m) ==
    /\ m \in inflight
    /\ inflight' = inflight \ {m}
    /\ UNCHANGED <<client, dropped, strategyType, urlValid, mailbox, sse, waits, pollers, handles, closed,
                   delivered, exhausted>>
    /\ UNCHANGED cryptoVars

\* decryptEmailData returns the email: fan-out to the callbacks of the
\* subscription object the invocation holds.
HandleMessageDelivers(m) ==
    /\ m \in inflight
    /\ decryptEmailData(EnvelopeOf(EmailById(m.email).env)) = "ok"
    /\ LET cbs == IF m.live THEN sse.subscriptions[m.inbox].callbacks ELSE m.callbacks
           Wd == FanOut(World(sse, waits, delivered), cbs, 1, EmailById(m.email))
       IN  /\ ~Wd.sse.overflow
           /\ sse' = Wd.sse
           /\ waits' = Wd.waits
           /\ delivered' = Wd.delivered
           /\ inflight' = OrphanDeleted(inflight \ {m}, sse, Wd.sse)
    /\ UNCHANGED <<client, dropped, strategyType, urlValid, mailbox, pollers, handles, closed, exhausted>>
    /\ UNCHANGED cryptoVars

\* ---- Inbox.onNewEmail and the handle it returns ----

\* Inbox.onNewEmail(f).  Without a strategy it throws a StrategyError; on
\* the polling strategy every call starts a loop of its own, and the model
\* lets a function be subscribed to an inbox once.  handles tells, for the
\* handles the calls with f returned: "none" (no call yet), "active" (no
\* unsubscribe() called yet), "cancelled" (unsubscribe() called on every
\* handle), "renewed" (f was subscribed again after an unsubscribe(): one
\* handle is used up, the newer one is not), or the error the call threw.
UserSubscribe(i, f) ==
    /\ CASE strategyType = "none" ->
              /\ handles[<<i, f>>] # "StrategyError"
              /\ handles' = [handles EXCEPT ![<<i, f>>] = "StrategyError"]
              /\ UNCHANGED <<sse, pollers, exhausted>>
         [] strategyType = "polling" ->
              /\ handles[<<i, f>>] = "none"
              /\ handles' = [handles EXCEPT ![<<i, f>>] = "active"]
              /\ pollers' = [pollers EXCEPT ![<<i, UserCb(f)>>] = StartPoller]
              /\ UNCHANGED <<sse, exhausted>>
         [] strategyType = "sse" ->
              LET R == subscribe(sse, i, UserCb(f)) IN
              /\ ~R.overflow
              /\ sse' = [R EXCEPT !.thrown = "none"]
              /\ handles' = [handles EXCEPT ![<<i, f>>] =
                                IF R.thrown # "none" THEN R.thrown
                                ELSE IF @ \in {"cancelled", "renewed"} THEN "renewed"
                                ELSE "active"]
              /\ exhausted' = IF R.thrown # "none" THEN ThrownToCaller ELSE OpSucceeded
              /\ UNCHANGED pollers
    /\ UNCHANGED <<client, dropped, strategyType, urlValid, mailbox, inflight, waits, closed, delivered>>
    /\ UNCHANGED cryptoVars

\* The first unsubscribe() on the handle onNewEmail returned.
UserUnsubscribe(i, f) ==
    /\ handles[<<i, f>>] \in {"active", "renewed"}
    /\ handles' = [handles EXCEPT ![<<i, f>>] = "cancelled"]
    /\ CASE strategyType = "polling" ->
              /\ pollers' = [pollers EXCEPT ![<<i, UserCb(f)>>].isActive = FALSE]
              /\ UNCHANGED <<sse, inflight, exhausted>>
         [] strategyType = "sse" ->
              LET R == unsubscribe(sse, i, UserCb(f)) IN
              /\ ~R.overflow
              /\ sse' = [R EXCEPT !.thrown = "none"]
              /\ exhausted' = IF R.thrown # "none" THEN ThrownToCaller ELSE exhausted
              /\ inflight' = OrphanDeleted(inflight, sse, R)
              /\ UNCHANGED pollers
    /\ UNCHANGED <<client, dropped, strategyType, urlValid, mailbox, waits, closed, delivered>>
    /\ UNCHANGED cryptoVars

\* unsubscribe() once more on a handle it was already called on.  The
\* closure of the stream strategy looks the inbox up in the map again and
\* deletes its callback from whatever set is there; the polling closure
\* clears its own isActive flag again.
UserUnsubscribeAgain(i, f) ==
    /\ handles[<<i, f>>] \in {"cancelled", "renewed"}
    /\ CASE strategyType = "polling" ->
              /\ pollers' = [pollers EXCEPT ![<<i, UserCb(f)>>].isActive = FALSE]
              /\ UNCHANGED <<sse, inflight, exhausted>>
         [] strategyType = "sse" ->
              LET R == unsubscribe(sse, i, UserCb(f)) IN
              /\ ~R.overflow
              /\ sse' = [R EXCEPT !.thrown = "none"]
              /\ exhausted' = IF R.thrown # "none" THEN ThrownToCaller ELSE exhausted
              /\ inflight' = OrphanDeleted(inflight, sse, R)
              /\ UNCHANGED pollers
    /\ UNCHANGED <<client, dropped, strategyType, urlValid, mailbox, waits, handles, closed, delivered>>
    /\ UNCHANGED cryptoVars

\* ---- Inbox.waitForEmail on the stream strategy ----

\* The next wait is the lowest free one.
NextFree(w) == /\ waits[w].state = "free"
               /\ \A v \in 1..(w - 1) : waits[v].state # "free"

\* Inbox.waitForEmail without a strategy: StrategyError.
WaitForEmailNoStrategy(w, i, o) ==
    /\ strategyType = "none"
    /\ NextFree(w)
    /\ waits' = [waits EXCEPT ![w] =
                    Settle([FreeWait EXCEPT !.state = "pending", !.inbox = i, !.options = o],
                           "StrategyError", 0)]
    /\ UNCHANGED <<client, dropped, strategyType, urlValid, mailbox, sse, inflight, pollers, handles, closed,
                   delivered, exhausted>>
    /\ UNCHANGED cryptoVars

\* SSEStrategy.waitForEmail up to the return of the promise.  zero: the
\* timeout is 0, so the elapsed-time check at the end of the executor fires.
WaitStart(w, i, o, zero) ==
    /\ strategyType = "sse"
    /\ NextFree(w)
    /\ LET armed == [FreeWait EXCEPT !.state = "pending", !.inbox = i, !.options = o,
                                     !.timer = TRUE, !.zero = zero]
           R == subscribe(sse, i, WaitCb(w))
           U == unsubscribe(R, i, WaitCb(w))
       IN  IF R.thrown # "none"
           THEN \* subscribe threw inside the executor: the promise rejects
                /\ ~R.overflow
                /\ sse' = [R EXCEPT !.thrown = "none"]
                /\ waits' = [waits EXCEPT ![w] = Settle(armed, R.thrown, 0)]
                /\ exhausted' = ThrownToCaller
                /\ inflight' = inflight
           ELSE IF ~zero
           THEN /\ ~R.overflow
                /\ sse' = R
                /\ waits' = [waits EXCEPT ![w] = [armed EXCEPT !.subscribed = TRUE]]
                /\ exhausted' = OpSucceeded
                /\ inflight' = inflight
           ELSE /\ ~R.overflow /\ ~U.overflow
                /\ sse' = [U EXCEPT !.thrown = "none"]
                /\ waits' = [waits EXCEPT ![w] =
                                Settle([armed EXCEPT !.subscribed = TRUE, !.resolved = TRUE,
                                                     !.timer = FALSE],
                                       IF U.thrown # "none" THEN U.thrown ELSE "TimeoutError", 0)]
                /\ exhausted' = IF U.thrown # "none" THEN ThrownToCaller ELSE OpSucceeded
                /\ inflight' = OrphanDeleted(inflight, sse, U)
    /\ UNCHANGED <<client, dropped, strategyType, urlValid, mailbox, pollers, handles, closed, delivered>>
    /\ UNCHANGED cryptoVars

\* What the timeout handler of waitForEmail does to the subscription.
TimeoutUnsubscribe(S, i, cb) == unsubscribe(S, i, cb)

\* The timeout timer of a waitForEmail call fires.
WaitTimerFires(w) ==
    /\ strategyType = "sse"
    /\ waits[w].kind = "email"
    /\ waits[w].timer
    /\ LET wt == [waits[w] EXCEPT !.timer = FALSE]
           R == TimeoutUnsubscribe(sse, wt.inbox, WaitCb(w))
       IN  IF wt.resolved
           THEN /\ waits' = [waits EXCEPT ![w] = wt]
                /\ UNCHANGED <<sse, inflight, exhausted>>
           ELSE IF ~wt.subscribed
           THEN \* `subscription` was never initialised: ReferenceError in the timer
                /\ waits' = [waits EXCEPT ![w] = wt]
                /\ UNCHANGED <<sse, inflight, exhausted>>
           ELSE /\ ~R.overflow
                /\ sse' = [R EXCEPT !.thrown = "none"]
                /\ inflight' = OrphanDeleted(inflight, sse, R)
                /\ waits' = [waits EXCEPT ![w] =
                                IF R.thrown # "none" THEN wt ELSE Settle(wt, "TimeoutError", 0)]
                /\ exhausted' = IF R.thrown # "none" THEN ThrownInHandler ELSE exhausted
    /\ UNCHANGED <<client, dropped, strategyType, urlValid, mailbox, pollers, handles, closed, delivered>>
    /\ UNCHANGED cryptoVars

\* ---- Inbox.waitForEmailCount ----

\* waitForEmailCount(n) up to its first await, the getSyncStatus call.
WaitCountStart(w, i, n) ==
    /\ NextFree(w)
    /\ waits' = [waits EXCEPT ![w] = [FreeWait EXCEPT !.state = "syncing", !.kind = "count",
                                                      !.inbox = i, !.count = n]]
    /\ UNCHANGED <<client, dropped, strategyType, urlValid, mailbox, sse, inflight, pollers, handles, closed,
                   delivered, exhausted>>
    /\ UNCHANGED cryptoVars

\* cleanup() of waitForEmailCount, on the strategy in use: clearTimeout is
\* in the callers below, this is subscription.unsubscribe().
CleanupUnsubscribe(S, wt, w) ==
    IF wt.subscribed /\ strategyType = "sse" THEN unsubscribe(S, wt.inbox, CountCb(w)) ELSE S

CleanupPoller(P, wt, w) ==
    IF wt.subscribed /\ strategyType = "polling"
    THEN [P EXCEPT ![<<wt.inbox, CountCb(w)>>].isActive = FALSE]
    ELSE P

\* The count test, satisfied one email early.
CountReached_Early(emailCount, count) == emailCount + 1 >= count

\* syncStatus.emailCount >= count
CountReached(emailCount, count) == emailCount >= count

\* The first getSyncStatus answers (or fails).  With enough emails the call
\* returns; otherwise the executor arms the timer and subscribes.
WaitCountSynced(w, fails) ==
    /\ waits[w].state = "syncing"
    /\ LET wt == [waits[w] EXCEPT !.state = "pending"]
           armed == [wt EXCEPT !.timer = TRUE]
           R == subscribe(sse, wt.inbox, CountCb(w))
       IN  IF fails
           THEN /\ waits' = [waits EXCEPT ![w] = Settle(wt, "ApiError", 0)]
                /\ UNCHANGED <<sse, pollers, exhausted>>
           ELSE IF CountReached(Len(mailbox[wt.inbox]), wt.count)
           THEN /\ waits' = [waits EXCEPT ![w] = Settle(wt, "ok", 0)]
                /\ UNCHANGED <<sse, pollers, exhausted>>
           ELSE CASE strategyType = "none" ->
                       \* onNewEmail throws inside the executor
                       /\ waits' = [waits EXCEPT ![w] = Settle(armed, "StrategyError", 0)]
                       /\ UNCHANGED <<sse, pollers, exhausted>>
                  [] strategyType = "polling" ->
                       /\ waits' = [waits EXCEPT ![w] = [armed EXCEPT !.subscribed = TRUE]]
                       /\ pollers' = [pollers EXCEPT ![<<wt.inbox, CountCb(w)>>] = StartPoller]
                       /\ UNCHANGED <<sse, exhausted>>
                  [] strategyType = "sse" ->
                       /\ ~R.overflow
                       /\ sse' = [R EXCEPT !.thrown = "none"]
                       /\ waits' = [waits EXCEPT ![w] =
                                       IF R.thrown # "none" THEN Settle(armed, R.thrown, 0)
                                       ELSE [armed EXCEPT !.subscribed = TRUE]]
                       /\ exhausted' = IF R.thrown # "none" THEN ThrownToCaller
                                       ELSE OpSucceeded
                       /\ UNCHANGED pollers
    /\ UNCHANGED <<client, dropped, strategyType, urlValid, mailbox, inflight, handles, closed, delivered>>
    /\ UNCHANGED cryptoVars

\* What cleanup() does to the timer.
CleanupTimer(armed) == FALSE

\* A getSyncStatus call of the count callback answers (or fails).
CountCheckDone(w, fails) ==
    /\ waits[w].checks > 0
    /\ LET wt == [waits[w] EXCEPT !.checks = @ - 1]
           cleaned == [wt EXCEPT !.timer = CleanupTimer(@)]
           R == CleanupUnsubscribe(sse, wt, w)
           reached == CountReached(Len(mailbox[wt.inbox]), wt.count)
       IN  /\ ~R.overflow
           /\ IF ~fails /\ ~reached
              THEN /\ waits' = [waits EXCEPT ![w] = wt]
                   /\ UNCHANGED <<sse, pollers, inflight>>
              ELSE /\ sse' = [R EXCEPT !.thrown = "none"]
                   /\ pollers' = CleanupPoller(pollers, wt, w)
                   /\ inflight' = OrphanDeleted(inflight, sse, R)
                   /\ waits' = [waits EXCEPT ![w] =
                         IF R.thrown = "none"
                         THEN Settle(cleaned, IF fails THEN "ApiError" ELSE "ok", 0)
                         ELSE IF fails
                         THEN \* cleanup() throws inside the catch block
                              cleaned
                         ELSE \* cleanup() throws inside try: the catch block runs
                              \* it again and rejects with the error
                              Settle(cleaned, R.thrown, 0)]
    /\ UNCHANGED <<client, dropped, strategyType, urlValid, mailbox, handles, closed, delivered, exhausted>>
    /\ UNCHANGED cryptoVars

\* The timeout timer of a waitForEmailCount call fires.
WaitCountTimerFires(w) ==
    /\ waits[w].kind = "count"
    /\ waits[w].timer
    /\ LET wt == [waits[w] EXCEPT !.timer = FALSE]
           R == CleanupUnsubscribe(sse, wt, w)
       IN  /\ ~R.overflow
           /\ sse' = [R EXCEPT !.thrown = "none"]
           /\ pollers' = CleanupPoller(pollers, wt, w)
           /\ inflight' = OrphanDeleted(inflight, sse, R)
           /\ waits' = [waits EXCEPT ![w] =
                           IF R.thrown # "none" THEN wt ELSE Settle(wt, "TimeoutError", 0)]
           /\ exhausted' = IF R.thrown # "none" THEN ThrownInHandler ELSE exhausted
    /\ UNCHANGED <<client, dropped, strategyType, urlValid, mailbox, handles, closed, delivered>>
    /\ UNCHANGED cryptoVars

\* ---- PollingStrategy ----

\* decryptEmails: the emails of the list, or the error of the first one
\* that fails.
RECURSIVE decryptEmails(_)
decryptEmails(emailsData) ==
    IF emailsData = <<>> THEN "ok"
    ELSE LET r == decryptEmailData(EnvelopeOf(Head(emailsData).env)) IN
         IF r # "ok" THEN r ELSE decryptEmails(Tail(emailsData))

\* The email at which decryptEmails stops: the first of the list whose
\* decryptEmailData throws, 0 when there is none.
RECURSIVE FirstFailing(_)
FirstFailing(emailsData) ==
    IF emailsData = <<>> THEN 0
    ELSE IF decryptEmailData(EnvelopeOf(Head(emailsData).env)) # "ok" THEN Head(emailsData).id
    ELSE FirstFailing(Tail(emailsData))

\* The for loop of a polling tick without its seenEmails test.
RECURSIVE NotifyNew_Forgetful(_, _, _, _, _)
NotifyNew_Forgetful(Wd, seen, cb, emails, k) ==
    IF k > Len(emails) THEN [world |-> Wd, seenEmails |-> seen]
    ELSE NotifyNew_Forgetful(Invoke(Wd, cb, emails[k]), seen \cup {emails[k].id}, cb, emails, k + 1)

\* The for loop of a polling tick over the decrypted list.
RECURSIVE NotifyNew(_, _, _, _, _)
NotifyNew(Wd, seen, cb, emails, k) ==
    IF k > Len(emails) \/ Wd.escaped # "none" THEN [world |-> Wd, seenEmails |-> seen]
    ELSE IF emails[k].id \in seen THEN NotifyNew(Wd, seen, cb, emails, k + 1)
    ELSE NotifyNew(Invoke(Wd, cb, emails[k]), seen \cup {emails[k].id}, cb, emails, k + 1)

\* What the loop of subscribe does after a tick, and after its sleep.
AfterTick(isActive) == IF isActive THEN "sleep" ELSE "done"

\* listEmails answers and the list is decrypted (or one of the two fails,
\* which the loop logs): the callback gets every email not seen before.
PollerTick(key, fails) ==
    /\ strategyType = "polling"
    /\ pollers[key].pc = "fetch"
    /\ LET p == pollers[key]
           emails == mailbox[key[1]]
           N == NotifyNew(World(sse, waits, delivered), p.seenEmails, key[2], emails, 1)
       IN  IF fails \/ decryptEmails(emails) # "ok"
           THEN /\ pollers' = [pollers EXCEPT ![key].pc = AfterTick(p.isActive),
                                              ![key].failed =
                                                  IF fails THEN @
                                                  ELSE @ \cup {FirstFailing(emails)}]
                /\ UNCHANGED <<waits, delivered>>
           ELSE /\ pollers' = [pollers EXCEPT ![key].pc = AfterTick(p.isActive),
                                              ![key].seenEmails = N.seenEmails]
                /\ waits' = N.world.waits
                /\ delivered' = N.world.delivered
    /\ UNCHANGED <<client, dropped, strategyType, urlValid, mailbox, sse, inflight, handles, closed, exhausted>>
    /\ UNCHANGED cryptoVars

\* sleep(initialInterval) is over: the while condition is tested.
PollerWake(key) ==
    /\ strategyType = "polling"
    /\ pollers[key].pc = "sleep"
    /\ pollers' = [pollers EXCEPT ![key].pc =
                                      IF pollers[key].isActive THEN "fetch" ELSE "done"]
    /\ UNCHANGED <<client, dropped, strategyType, urlValid, mailbox, sse, inflight, waits, handles, closed,
                   delivered, exhausted>>
    /\ UNCHANGED cryptoVars

\* The inputs of a timed wait: options.timeout, options.pollInterval, how
\* long a request takes, and Math.random() in tenths.
Timeouts(ck) == IF ck.timed THEN {0, Ms(4000), Ms(12000)} ELSE {0}
PollIntervals(ck) == IF ck.timed THEN {Ms(initialInterval), Ms(6000)} ELSE {0}
Latencies(ck) == IF ck.timed THEN {0, Ms(1500)} ELSE {0}
RandomSamples(ck) == IF ck.timed THEN {0, 9} ELSE {0}

\* const timeout, pollInterval, startTime; let currentBackoff = pollInterval.
StartClock(ck, timeout, pollInterval) ==
    IF ck.timed
    THEN [ck EXCEPT !.timeout = timeout, !.pollInterval = pollInterval,
                    !.currentBackoff = pollInterval]
    ELSE ck

\* An await of the loop took dt.
Elapse(ck, dt) == IF ck.timed THEN [ck EXCEPT !.elapsed = @ + dt] ELSE ck

\* getSyncStatus has answered with this digest.
Synced(ck, hash) == IF ck.timed THEN [ck EXCEPT !.emailsHash = hash] ELSE ck

\* Date.now() - startTime >= timeout, which is remainingTime <= 0: the flag
\* of a timed wait is what its clock says.
IsLate(ck, late) == ck.timed => (late = (ck.timeout - ck.elapsed <= 0))

\* currentBackoff = pollInterval, after a new or changed digest.
ResetBackoff(ck) ==
    IF ck.timed THEN [ck EXCEPT !.currentBackoff = ck.pollInterval, !.changed = TRUE] ELSE ck

\* The sleep that ends an iteration, not limited to the remaining time.
Sleep_Unclipped(ck, r) ==
    IF ck.timed
    THEN LET jitter == Jitter(r, ck.currentBackoff)
             desiredWaitTime == Min(ck.currentBackoff + jitter, ck.maxBackoff)
         IN  [ck EXCEPT !.waitTime = desiredWaitTime, !.interval = ck.currentBackoff,
                        !.idle = IF ck.changed THEN 0 ELSE @ + 1, !.changed = FALSE]
    ELSE ck

\* jitter, desiredWaitTime and waitTime of the sleep that ends an iteration.
Sleep(ck, r) ==
    IF ck.timed
    THEN LET remainingTime == ck.timeout - ck.elapsed
             jitter == Jitter(r, ck.currentBackoff)
             desiredWaitTime == Min(ck.currentBackoff + jitter, ck.maxBackoff)
             waitTime == Min(desiredWaitTime, remainingTime)
         IN  [ck EXCEPT !.waitTime = waitTime, !.interval = ck.currentBackoff,
                        !.idle = IF ck.changed THEN 0 ELSE @ + 1, !.changed = FALSE]
    ELSE ck

\* The backoff after a sleep, grown by a sum instead of a product.
NextBackoff_Additive(ck, lastHash) ==
    IF ck.emailsHash = lastHash
    THEN Min(ck.currentBackoff + ck.pollInterval, ck.maxBackoff)
    ELSE ck.currentBackoff

\* The backoff after a sleep: multiplied when the digest of the iteration is
\* the last one seen.
NextBackoff(ck, lastHash) ==
    IF ck.emailsHash = lastHash
    THEN Min(TimesBackoffMultiplier(ck.currentBackoff), ck.maxBackoff)
    ELSE ck.currentBackoff

\* The sleep is over.
Wake(ck, lastHash) ==
    IF ck.timed
    THEN [ck EXCEPT !.elapsed = @ + ck.waitTime, !.currentBackoff = NextBackoff(ck, lastHash)]
    ELSE ck

\* PollingStrategy.waitForEmail up to its first await.  zero: the timeout
\* is 0 and the loop is not entered.
PollWaitStart(w, i, o, zero) ==
    /\ strategyType = "polling"
    /\ NextFree(w)
    /\ \E timeout \in Timeouts(waits[w].clock), pollInterval \in PollIntervals(waits[w].clock) :
          LET ck == StartClock(waits[w].clock, timeout, pollInterval)
              wt == [FreeWait EXCEPT !.state = "pending", !.inbox = i, !.options = o,
                                     !.zero = zero, !.clock = ck]
          IN  /\ IsLate(ck, zero)
              /\ waits' = [waits EXCEPT ![w] = IF zero THEN Settle(wt, "TimeoutError", 0)
                                               ELSE [wt EXCEPT !.pc = "sync"]]
    /\ UNCHANGED <<client, dropped, strategyType, urlValid, mailbox, sse, inflight, pollers, handles, closed,
                   delivered, exhausted>>
    /\ UNCHANGED cryptoVars

\* The end of an iteration: break when no time remains, else sleep.
SleepOrTimeout(wt, late, r) ==
    IF late THEN Settle([wt EXCEPT !.pc = "none"], "TimeoutError", 0)
    ELSE [wt EXCEPT !.pc = "sleep", !.clock = Sleep(@, r)]

\* The answers of the server to a request on an inbox: success, a server
\* error the interceptor does not retry any further, and a 404 whose message
\* names the inbox or names nothing.
HttpOk == [status |-> 200, message |-> "ok"]

SnapshotResponses ==
    {HttpOk,
     [status |-> 500, message |-> "error"],
     [status |-> 404, message |-> "inbox"],
     [status |-> 404, message |-> "resource"]}

\* ApiClient.handleError: the error a failed request is rejected with.
\* statusCode 0: the error object has no statusCode property.
handleError(resp) ==
    IF resp.status = 404 /\ resp.message = "inbox"
    THEN [class |-> "InboxNotFoundError", statusCode |-> 0]
    ELSE IF resp.status = 404 /\ resp.message = "email"
    THEN [class |-> "EmailNotFoundError", statusCode |-> 0]
    ELSE [class |-> "ApiError", statusCode |-> resp.status]

\* The catch block of the wait loop without its translation of a 404.
PollWaitCatch_Rethrow(error) == error.class

\* The catch block of the wait loop: what waitForEmail rejects with.
PollWaitCatch(error) ==
    IF error.statusCode = 404 THEN "InboxNotFoundError" ELSE error.class

\* The digest test of the wait loop, taking every digest for a new one.
DigestChanged_Always(lastHash, emailsHash) == TRUE

\* lastHash === null || syncStatus.emailsHash !== lastHash
DigestChanged(lastHash, emailsHash) == lastHash = -1 \/ emailsHash # lastHash

\* getSyncStatus answers (or fails).  late: no time remains by now.
PollWaitSync(w, resp, late) ==
    /\ strategyType = "polling"
    /\ waits[w].pc = "sync"
    /\ \E dt \in Latencies(waits[w].clock), r \in RandomSamples(waits[w].clock) :
          LET hash == Len(mailbox[waits[w].inbox])
              wt == [waits[w] EXCEPT !.clock = Synced(Elapse(@, dt), hash)]
              seen == [wt EXCEPT !.lastHash = hash]
          IN  /\ IsLate(wt.clock, late)
              /\ waits' = [waits EXCEPT ![w] =
                    IF resp # HttpOk
                    THEN Settle([wt EXCEPT !.pc = "none"], PollWaitCatch(handleError(resp)), 0)
                    ELSE IF DigestChanged(wt.lastHash, hash)
                    THEN IF hash > 0 THEN [seen EXCEPT !.pc = "list"]
                         ELSE SleepOrTimeout([seen EXCEPT !.clock = ResetBackoff(@)], late, r)
                    ELSE SleepOrTimeout(wt, late, r)]
    /\ UNCHANGED <<client, dropped, strategyType, urlValid, mailbox, sse, inflight, pollers, handles, closed,
                   delivered, exhausted>>
    /\ UNCHANGED cryptoVars

\* listEmails answers and the list is decrypted, or one of the two fails.
PollWaitList(w, resp, late) ==
    /\ strategyType = "polling"
    /\ waits[w].pc = "list"
    /\ \E dt \in Latencies(waits[w].clock), r \in RandomSamples(waits[w].clock) :
          LET wt == [waits[w] EXCEPT !.clock = Elapse(@, dt)]
              emails == mailbox[wt.inbox]
              d == decryptEmails(emails)
              matchingEmail == findMatchingEmail(emails, wt.options)
          IN  /\ IsLate(wt.clock, late)
              /\ waits' = [waits EXCEPT ![w] =
                    IF resp # HttpOk
                    THEN Settle([wt EXCEPT !.pc = "none"], PollWaitCatch(handleError(resp)), 0)
                    ELSE IF d # "ok" THEN Settle([wt EXCEPT !.pc = "none"], d, 0)
                    ELSE IF matchingEmail # NoEmail
                    THEN Settle([wt EXCEPT !.pc = "none"], "email", matchingEmail.id)
                    ELSE SleepOrTimeout([wt EXCEPT !.clock = ResetBackoff(@)], late, r)]
    /\ UNCHANGED <<client, dropped, strategyType, urlValid, mailbox, sse, inflight, pollers, handles, closed,
                   delivered, exhausted>>
    /\ UNCHANGED cryptoVars

\* The sleep of the wait loop is over: the while condition is tested.
PollWaitWake(w, late) ==
    /\ strategyType = "polling"
    /\ waits[w].pc = "sleep"
    /\ LET wt == [waits[w] EXCEPT !.clock = Wake(@, waits[w].lastHash)] IN
          /\ IsLate(wt.clock, late)
          /\ waits' = [waits EXCEPT ![w] =
                          IF late THEN Settle([wt EXCEPT !.pc = "none"], "TimeoutError", 0)
                          ELSE [wt EXCEPT !.pc = "sync"]]
    /\ UNCHANGED <<client, dropped, strategyType, urlValid, mailbox, sse, inflight, pollers, handles, closed,
                   delivered, exhausted>>
    /\ UNCHANGED cryptoVars

\* ---- VaultSandboxClient.close ----

\* PollingStrategy.close()
pollingClose(P) == P

\* close(): strategy.close() when there is a strategy, then inboxes.clear().
ClientClose ==
    /\ ~closed
    /\ closed' = TRUE
    /\ sse' = IF strategyType = "sse" THEN close(sse) ELSE sse
    /\ inflight' = IF strategyType = "sse" THEN OrphanAll(inflight, sse) ELSE inflight
    /\ pollers' = IF strategyType = "polling" THEN pollingClose(pollers) ELSE pollers
    /\ client' = [client EXCEPT !.inboxes = [i \in Inboxes |-> NoInbox],
                                !.closedStrategies = @ \cup ({client.strategy} \ {0})]
    /\ UNCHANGED <<dropped, strategyType, urlValid, mailbox, waits, handles, delivered, exhausted>>
    /\ UNCHANGED cryptoVars

Next ==
    \/ \E i \in Created, kind \in EmailKinds : GatewayEmail(i, kind)
    \/ \E c \in 1..MaxConns : OnOpen(c)
    \/ \E c \in 1..MaxConns, fatal \in BOOLEAN : OnError(c, fatal)
    \/ ReconnectTimerFires
    \/ \E m \in inflight : HandleMessageFails(m)
    \/ \E m \in inflight : HandleMessageDelivers(m)
    \/ \E i \in Created, f \in 1..NumUserFns : UserSubscribe(i, f)
    \/ \E i \in Created, f \in 1..NumUserFns : UserUnsubscribe(i, f)
    \/ \E i \in Created, f \in 1..NumUserFns : UserUnsubscribeAgain(i, f)
    \/ \E w \in 1..MaxWaits, i \in Created, o \in WaitOptionsSet :
          WaitForEmailNoStrategy(w, i, o)
    \/ \E w \in 1..MaxWaits, i \in Created, o \in WaitOptionsSet, zero \in BOOLEAN :
          WaitStart(w, i, o, zero)
    \/ \E w \in 1..MaxWaits : WaitTimerFires(w)
    \/ \E w \in 1..MaxWaits, i \in Created, n \in 1..MaxEmails : WaitCountStart(w, i, n)
    \/ \E w \in 1..MaxWaits, fails \in BOOLEAN : WaitCountSynced(w, fails)
    \/ \E w \in 1..MaxWaits, fails \in BOOLEAN : CountCheckDone(w, fails)
    \/ \E w \in 1..MaxWaits : WaitCountTimerFires(w)
    \/ \E key \in PollerKeys, fails \in BOOLEAN : PollerTick(key, fails)
    \/ \E key \in PollerKeys : PollerWake(key)
    \/ \E w \in 1..MaxWaits, i \in Created, o \in WaitOptionsSet, zero \in BOOLEAN :
          PollWaitStart(w, i, o, zero)
    \/ \E w \in 1..MaxWaits, resp \in SnapshotResponses, late \in BOOLEAN :
          PollWaitSync(w, resp, late)
    \/ \E w \in 1..MaxWaits, resp \in SnapshotResponses, late \in BOOLEAN :
          PollWaitList(w, resp, late)
    \/ \E w \in 1..MaxWaits, late \in BOOLEAN : PollWaitWake(w, late)
    \/ ClientClose

Init == DeliveryInit /\ CryptoInit

Spec == Init /\ [][Next]_vars

InitCrypto == CryptoInit /\ DeliveryQuiet

SpecCrypto == InitCrypto /\ [][CryptoNext]_vars

\* ---- the stream strategy with two inboxes ----

\* The emails the gateway of SpecRegistry receives.
RegistryKinds == {k \in EmailKinds : k.subject = <<"R">>}

InitRegistry ==
    /\ strategyType = "sse"
    /\ urlValid \in BOOLEAN
    /\ mailbox = [i \in Inboxes |-> <<>>]
    /\ sse = [NewStrategy EXCEPT !.conns = [c \in 1..RegistryConns |-> ClosedConn],
                                 !.maxReconnectAttempts = RegistryAttempts]
    /\ inflight = {}
    /\ waits = [w \in 1..MaxWaits |-> FreeWait]
    /\ pollers = [k \in PollerKeys |-> NoPoller]
    /\ handles = [k \in HandleKeys |-> "none"]
    /\ closed = FALSE
    /\ delivered = <<>>
    /\ exhausted = NoExhaustion
    /\ dropped = {}
    /\ client = NewClient(Inboxes)
    /\ CryptoInit

NextRegistry ==
    \/ \E i \in Inboxes, kind \in {k \in RegistryKinds : Cardinality(AllEmails) < RegistryEmails} :
          GatewayEmail(i, kind)
    \/ \E c \in 1..RegistryConns : OnOpen(c)
    \/ \E c \in 1..RegistryConns, fatal \in BOOLEAN : OnError(c, fatal)
    \/ ReconnectTimerFires
    \/ \E m \in inflight : HandleMessageFails(m)
    \/ \E m \in inflight : HandleMessageDelivers(m)
    \/ \E i \in Inboxes, f \in 1..NumUserFns : UserSubscribe(i, f)
    \/ \E i \in Inboxes, f \in 1..NumUserFns : UserUnsubscribe(i, f)
    \/ \E i \in Inboxes, f \in 1..NumUserFns : UserUnsubscribeAgain(i, f)
    \/ ClientClose

SpecRegistry == InitRegistry /\ [][NextRegistry]_vars

\* ---- the polling wait with its clock ----

\* The maxBackoff values of the PollingConfig the strategy is built with.
MaxBackoffs == {Ms(5000), Ms(maxBackoff)}

\* Emails the gateway of SpecBackoff receives: none of them matches the
\* second of the WaitOptionsSet.
BackoffKinds == {k \in EmailKinds : k.subject = <<"W", "R">>}

InitBackoff ==
    /\ strategyType = "polling"
    /\ urlValid = TRUE
    /\ mailbox = [i \in Inboxes |-> <<>>]
    /\ sse = NewStrategy
    /\ inflight = {}
    /\ \E mb \in MaxBackoffs :
          waits = [w \in 1..MaxWaits |->
                      [FreeWait EXCEPT !.clock = [NoClock EXCEPT !.timed = TRUE,
                                                                 !.maxBackoff = mb]]]
    /\ pollers = [k \in PollerKeys |-> NoPoller]
    /\ handles = [k \in HandleKeys |-> "none"]
    /\ closed = FALSE
    /\ delivered = <<>>
    /\ exhausted = NoExhaustion
    /\ dropped = {}
    /\ client = NewClient(Created)
    /\ CryptoInit

NextPolling ==
    \/ \E i \in Created, kind \in BackoffKinds : GatewayEmail(i, kind)
    \/ \E w \in 1..MaxWaits, i \in Created, o \in WaitOptionsSet, zero \in BOOLEAN :
          PollWaitStart(w, i, o, zero)
    \/ \E w \in 1..MaxWaits, resp \in SnapshotResponses, late \in BOOLEAN :
          PollWaitSync(w, resp, late)
    \/ \E w \in 1..MaxWaits, resp \in SnapshotResponses, late \in BOOLEAN :
          PollWaitList(w, resp, late)
    \/ \E w \in 1..MaxWaits, late \in BOOLEAN : PollWaitWake(w, late)

SpecBackoff == InitBackoff /\ [][NextPolling]_vars

\* ---- importInbox ----

\* checkInboxDoesNotExist: the error it throws, or "ok".
checkInboxDoesNotExist(C, emailAddress) ==
    IF C.inboxes[emailAddress] # NoInbox THEN "InboxAlreadyExistsError" ELSE "ok"

\* createAndTrackInbox for the call c: inboxes.set(emailAddress, inbox).
createAndTrackInbox(C, c) ==
    [C EXCEPT !.inboxes[C.imports[c].data.emailAddress] =
                                            [by |-> "importInbox", call |-> c],
              !.imports[c].pc = "done", !.imports[c].outcome = "inbox",
              !.imports[c].bound = C.strategy]

\* An importInbox call ends with an error.
ImportThrows(C, c, error) ==
    [C EXCEPT !.imports[c].pc = "done", !.imports[c].outcome = error]

\* importInbox(data) up to its await: the validations of the data and
\* checkInboxDoesNotExist.
ImportInbox(c, data) ==
    /\ client.imports[c].pc = "idle"
    /\ \A b \in 1..(c - 1) : client.imports[b].pc # "idle"
    /\ LET C == [client EXCEPT !.imports[c].data = data] IN
       client' =
          IF data.fields # "ok" THEN ImportThrows(C, c, "InvalidImportDataError")
          ELSE IF checkInboxDoesNotExist(C, data.emailAddress) # "ok"
          THEN ImportThrows(C, c, checkInboxDoesNotExist(C, data.emailAddress))
          ELSE [C EXCEPT !.imports[c].pc = "initializing",
                         !.imports[c].fetch = ~C.serverPublicKey]
    /\ UNCHANGED <<dropped, strategyType, urlValid, mailbox, sse, inflight, waits, pollers,
                   handles, closed, delivered, exhausted>>
    /\ UNCHANGED cryptoVars

\* importInbox after await ensureInitialized(): getServerInfo was called when
\* the server key was not known yet (fails: that request failed), then
\* validateServerPublicKey and createAndTrackInbox.
ImportInitialized(c, fails) ==
    /\ client.imports[c].pc = "initializing"
    /\ LET fetched == IF client.imports[c].fetch THEN ensureInitialized(client) ELSE client IN
       client' =
          IF client.imports[c].fetch /\ fails THEN ImportThrows(client, c, "NetworkError")
          ELSE IF client.imports[c].data.serverSigPk # "server"
          THEN ImportThrows(fetched, c, "InvalidImportDataError")
          ELSE createAndTrackInbox(fetched, c)
    /\ UNCHANGED <<dropped, strategyType, urlValid, mailbox, sse, inflight, waits, pollers,
                   handles, closed, delivered, exhausted>>
    /\ UNCHANGED cryptoVars

\* createInbox() up to its await: ensureInitialized returns at once when
\* the server key is known and calls getServerInfo otherwise.
CreateInbox(c) ==
    /\ client.creates[c].pc = "idle"
    /\ \A b \in 1..(c - 1) : client.creates[b].pc # "idle"
    /\ client' = [client EXCEPT !.creates[c].pc = "initializing",
                                !.creates[c].fetch = ~client.serverPublicKey]
    /\ UNCHANGED <<dropped, strategyType, urlValid, mailbox, sse, inflight, waits, pollers,
                   handles, closed, delivered, exhausted>>
    /\ UNCHANGED cryptoVars

\* createInbox after await ensureInitialized() (fails: its getServerInfo
\* failed): generateKeypair and the createInbox request.
CreateInitialized(c, fails) ==
    /\ client.creates[c].pc = "initializing"
    /\ client' =
          IF ~client.creates[c].fetch THEN [client EXCEPT !.creates[c].pc = "creating"]
          ELSE IF fails
          THEN [client EXCEPT !.creates[c].pc = "done", !.creates[c].outcome = "NetworkError"]
          ELSE [ensureInitialized(client) EXCEPT !.creates[c].pc = "creating"]
    /\ UNCHANGED <<dropped, strategyType, urlValid, mailbox, sse, inflight, waits, pollers,
                   handles, closed, delivered, exhausted>>
    /\ UNCHANGED cryptoVars

\* The createInbox request answers with the inbox at address i (or fails):
\* new Inbox, setStrategy(this.strategy), inboxes.set.
CreateAnswered(c, i, fails) ==
    /\ client.creates[c].pc = "creating"
    /\ client.inboxes[i] = NoInbox
    /\ client' =
          IF fails
          THEN [client EXCEPT !.creates[c].pc = "done", !.creates[c].outcome = "ApiError"]
          ELSE [client EXCEPT !.creates[c].pc = "done", !.creates[c].outcome = "inbox",
                              !.creates[c].bound = client.strategy,
                              !.inboxes[i] = [by |-> "createInbox", call |-> c]]
    /\ UNCHANGED <<dropped, strategyType, urlValid, mailbox, sse, inflight, waits, pollers,
                   handles, closed, delivered, exhausted>>
    /\ UNCHANGED cryptoVars

InitImport ==
    /\ strategyType = "sse"
    /\ urlValid = TRUE
    /\ mailbox = [i \in Inboxes |-> <<>>]
    /\ sse = NewStrategy
    /\ inflight = {}
    /\ waits = [w \in 1..MaxWaits |-> FreeWait]
    /\ pollers = [k \in PollerKeys |-> NoPoller]
    /\ handles = [k \in HandleKeys |-> "none"]
    /\ closed = FALSE
    /\ delivered = <<>>
    /\ exhausted = NoExhaustion
    /\ dropped = {}
    /\ \E T \in SUBSET Created : client = NewClient(T)
    /\ CryptoInit

NextImport ==
    \/ \E c \in 1..MaxCreates : CreateInbox(c)
    \/ \E c \in 1..MaxCreates, fails \in BOOLEAN : CreateInitialized(c, fails)
    \/ \E c \in 1..MaxCreates, i \in Inboxes, fails \in BOOLEAN : CreateAnswered(c, i, fails)
    \/ \E c \in 1..MaxImports, data \in ImportDataSet : ImportInbox(c, data)
    \/ \E c \in 1..MaxImports, fails \in BOOLEAN : ImportInitialized(c, fails)
    \/ ClientClose

SpecImport == InitImport /\ [][NextImport]_vars

\* ---- waitForEmail on an inbox that already holds its emails ----

\* The emails an inbox holds when the first wait starts, oldest first.
Histories ==
    {<<>>}
    \cup {<<[id |-> 1, subject |-> k.subject, from |-> k.from, env |-> k.env]>> : k \in EmailKinds}
    \cup {<<[id |-> 1, subject |-> k.subject, from |-> k.from, env |-> k.env],
            [id |-> 2, subject |-> l.subject, from |-> l.from, env |-> l.env]>> :
              k \in EmailKinds, l \in EmailKinds}

\* A client on either strategy whose inbox received its emails before any
\* call; the gateway receives nothing afterwards.
InitHistory ==
    /\ strategyType \in {"sse", "polling"}
    /\ urlValid = TRUE
    /\ \E h \in Histories : mailbox = [i \in Inboxes |-> IF i \in Created THEN h ELSE <<>>]
    /\ sse = NewStrategy
    /\ inflight = {}
    /\ waits = [w \in 1..MaxWaits |-> FreeWait]
    /\ pollers = [k \in PollerKeys |-> NoPoller]
    /\ handles = [k \in HandleKeys |-> "none"]
    /\ closed = FALSE
    /\ delivered = <<>>
    /\ exhausted = NoExhaustion
    /\ dropped = {}
    /\ client = NewClient(Created)
    /\ CryptoInit

NextHistory ==
    \/ \E c \in 1..MaxConns : OnOpen(c)
    \/ \E w \in 1..MaxWaits, i \in Created, o \in WaitOptionsSet, zero \in BOOLEAN :
          WaitStart(w, i, o, zero)
    \/ \E w \in 1..MaxWaits : WaitTimerFires(w)
    \/ \E w \in 1..MaxWaits, i \in Created, o \in WaitOptionsSet, zero \in BOOLEAN :
          PollWaitStart(w, i, o, zero)
    \/ \E w \in 1..MaxWaits, resp \in SnapshotResponses, late \in BOOLEAN :
          PollWaitSync(w, resp, late)
    \/ \E w \in 1..MaxWaits, resp \in SnapshotResponses, late \in BOOLEAN :
          PollWaitList(w, resp, late)
    \/ \E w \in 1..MaxWaits, late \in BOOLEAN : PollWaitWake(w, late)

SpecHistory == InitHistory /\ [][NextHistory]_vars

(***************************************************************************)
(* Claims about the decryption pipeline (checked under SpecCrypto)         *)
(***************************************************************************)

DecryptFamily == Apis \ {"verifySignature"}

\* Entries of the log of the running call that satisfy a condition.
LogHas(prim, idx, result) ==
    \E j \in 1..Len(cLog) : cLog[j] = <<prim, idx, result>>

\* C1: inside decrypt and every helper built on it, decapsulation, key
\* derivation and AEAD decryption of an envelope happen only after the verify
\* primitive has returned true for that same envelope in the same call; a
\* call whose envelope fails verification ends in SignatureVerificationError
\* and has never invoked decapsulate.
C1_VerifyBeforeDecrypt ==
    cApi \in DecryptFamily =>
        /\ \A i \in 1..Len(cLog) :
              cLog[i][1] \in {"decapsulate", "deriveKey", "aesGcmDecrypt"} =>
                  \E j \in 1..(i - 1) : cLog[j] = <<"verify", cLog[i][2], "true">>
        /\ (cPc = "done" /\ verifySignature(cEnvs[cIdx])[2] # "true") =>
              /\ cOut = SignatureVerificationError
              /\ ~\E i \in 1..Len(cLog) : cLog[i][1] = "decapsulate" /\ cLog[i][2] = cIdx

\* C1 witness: decryptRaw of a well-formed envelope whose signature does not
\* verify has ended in SignatureVerificationError.
C1_Witness ==
    /\ cApi = "decryptRaw" /\ cPc = "done"
    /\ cEnvs[1].wellFormed /\ cEnvs[1].body.kem = "mine"
    /\ LogHas("verify", 1, "false")
    /\ cOut = SignatureVerificationError

\* C2: a finished verifySignature call returned true exactly when the verify
\* primitive returned true for the transcript of the envelope's own fields
\* under the envelope's own key, and otherwise threw
\* SignatureVerificationError; it produces no other outcome.
C2_VerifyTwoOutcomes ==
    (cApi = "verifySignature" /\ cPc = "done") =>
        LET e == cEnvs[1]
            genuine == /\ e.wellFormed
                       /\ e.sig.signer # "garbage"
                       /\ e.sig.signer = e.server_sig_pk
                       /\ e.sig.over = <<HKDF_CONTEXT, e.body, e.server_sig_pk>>
        IN  /\ cOut \in {"true", SignatureVerificationError}
            /\ cOut = "true" <=> genuine
            /\ cOut = "true" <=> cLog[Len(cLog)][3] = "true"

\* C2 witness: the primitive threw on a malformed signature and the call
\* ended in SignatureVerificationError.
C2_Witness ==
    /\ cApi = "verifySignature" /\ cPc = "done"
    /\ cLog[Len(cLog)] = <<"verify", 1, "Error">>
    /\ cOut = SignatureVerificationError

\* C3: a failed decrypt or decryptMetadata call failed with
\* SignatureVerificationError, and then the verification step was the last
\* thing it did, or with DecryptionError, and then verification had
\* succeeded and decapsulation, AEAD decryption or (decryptMetadata) JSON
\* parsing failed.
C3_DecryptErrorTypes ==
    (cApi \in {"decrypt", "decryptMetadata"} /\ cPc = "done" /\ cOut # "ok") =>
        LET last == cLog[Len(cLog)] IN
        \/ /\ cOut = SignatureVerificationError
           /\ last[1] = "verify" /\ last[3] # "true"
        \/ /\ cOut = DecryptionError
           /\ LogHas("verify", 1, "true")
           /\ \/ last[1] \in {"decapsulate", "aesGcmDecrypt"} /\ last[3] \in ForeignErrors
              \/ cApi = "decryptMetadata" /\ last = <<"aesGcmDecrypt", 1, "text">>

\* C3 witness: decryptMetadata decrypted a plaintext that is not JSON and
\* failed with DecryptionError.
C3_Witness ==
    /\ cApi = "decryptMetadata" /\ cPc = "done"
    /\ cLog[Len(cLog)] = <<"aesGcmDecrypt", 1, "text">>
    /\ cOut = DecryptionError

(***************************************************************************)
(* Claims about delivery, waits and shutdown (checked under Spec)          *)
(***************************************************************************)

\* The callback a wait registers with the strategy, and whether the
\* strategy still has it.
CallbackOf(w) == IF waits[w].kind = "count" THEN CountCb(w) ELSE WaitCb(w)

Registered(w) ==
    \/ /\ strategyType = "sse"
       /\ CallbackOf(w) \in Range(sse.subscriptions[waits[w].inbox].callbacks)
    \/ /\ strategyType = "polling"
       /\ pollers[<<waits[w].inbox, CountCb(w)>>].isActive

\* C4: whenever a waitForEmail call on the stream strategy or a
\* waitForEmailCount call has settled (match, count reached, Timeout, or an
\* error from the count check or from subscribing), its timeout timer is not
\* armed and its callback is not registered with the strategy.
C4_CleanupOnSettle ==
    \A w \in 1..MaxWaits :
        (/\ waits[w].state = "settled"
         /\ waits[w].kind = "count" \/ strategyType = "sse") =>
            /\ ~waits[w].timer
            /\ ~Registered(w)

\* The filters of the options, each applied to the email.
AllFiltersPass(email, o) ==
    /\ FilterPasses(o.subject, email.subject)
    /\ FilterPasses(o.from, email.from)
    /\ PredicatePasses(o.predicate, email)

\* The deliveries to the callback of wait w that pass its filters, as
\* positions of the delivery log.
MatchingDeliveries(w) ==
    {k \in 1..Len(delivered) :
        /\ delivered[k][1] = WaitCb(w)
        /\ AllFiltersPass(EmailById(delivered[k][2]), waits[w].options)}

InboxOf(id) == CHOOSE i \in Inboxes : \E k \in 1..Len(mailbox[i]) : mailbox[i][k].id = id

\* The callback invocations a step adds to the log.
NewDeliveries == {delivered'[k] : k \in (Len(delivered) + 1)..Len(delivered')}

\* C6: once unsubscribe() on the handle of a subscription has returned, the
\* subscription's callback is not invoked any more, under either strategy,
\* whatever was being fetched or decrypted at the time of the call.
C6_NoCallbackAfterUnsubscribe ==
    [][\A k \in HandleKeys :
          (handles[k] = "cancelled" /\ handles'[k] = "cancelled") =>
              ~\E d \in NewDeliveries : d[1] = UserCb(k[2]) /\ InboxOf(d[2]) = k[1]]_vars

\* What close() leaves behind, by the claim: no wait pending with an armed
\* timer, no connection and no reconnect timer, no polling loop, an empty
\* registry.
Quiesced ==
    /\ \A w \in 1..MaxWaits : ~(waits[w].state = "pending" /\ waits[w].timer)
    /\ LiveConns(sse) = {} /\ sse.eventSource = 0
    /\ sse.reconnectTimer = 0
    /\ \A key \in PollerKeys : pollers[key].pc \notin {"fetch", "sleep"}
    /\ \A w \in 1..MaxWaits : waits[w].pc = "none"
    /\ \A i \in Inboxes : ~sse.subscriptions[i].present

\* C7: when VaultSandboxClient.close() returns, every pending wait has been
\* cancelled, the stream is disconnected with no reconnect timer, no polling
\* loop is running and the subscription registry is empty.
C7_CloseCancelsEverything ==
    [][(~closed /\ closed') => Quiesced']_vars

\* C8: after close() has returned no subscription callback is invoked; the
\* result of a decryption in flight at close() is discarded.
C8_NoCallbackAfterClose ==
    [][closed => NewDeliveries = {}]_vars

\* C9: on the stream, every callback receives the emails of one inbox in
\* the order in which their messages arrived (ids are given in arrival
\* order).
C9_ArrivalOrder ==
    strategyType = "sse" =>
        \A p \in 1..Len(delivered), q \in 1..Len(delivered) :
            (/\ p < q
             /\ delivered[p][1] = delivered[q][1]
             /\ InboxOf(delivered[p][2]) = InboxOf(delivered[q][2])) =>
                delivered[p][2] <= delivered[q][2]

\* C10: an SSEError raised once the reconnection attempts are exhausted
\* reaches the caller: the waits pending at that moment reject with it, or
\* the next subscribe or wait on the strategy (before any close) fails with
\* it.
C10_ExhaustionReachesCaller ==
    (exhausted.where = "missed" /\ ~closed) =>
        /\ exhausted.pending # {}
        /\ \A w \in exhausted.pending :
              waits[w].state = "settled" /\ waits[w].outcome = "SSEError"

\* C11: a waitForEmailCount(n) call rejects with TimeoutError only when the
\* inbox holds fewer than n emails at the deadline; emails that arrived
\* before the call, between the first count check and the subscription, or
\* after the subscription all count.  Stated for a client that is not closed
\* and whose stream URL is well formed.
C11_TimeoutOnlyBelowCount ==
    [][\A w \in 1..MaxWaits :
          (/\ urlValid /\ ~closed
           /\ waits[w].kind = "count"
           /\ waits[w].state = "pending"
           /\ waits'[w].outcome = "TimeoutError") =>
              Len(mailbox[waits[w].inbox]) < waits[w].count]_vars

\* A step in which a stream waitForEmail call with timeout 0 runs: the wait
\* goes from not called to rejected with TimeoutError at once.
ZeroTimeoutWaitStep(w) ==
    /\ strategyType = "sse"
    /\ waits[w].state = "free"
    /\ waits'[w].state = "settled"
    /\ waits'[w].outcome = "TimeoutError"

\* C12: a waitForEmail call whose timeout is zero rejects with TimeoutError
\* without subscribing: the registry, the connection and the messages being
\* handled are the same after the call as before it.  Stated for a client
\* that is not closed and whose stream URL is well formed.
C12_ZeroTimeoutLeavesStreamAlone ==
    [][\A w \in 1..MaxWaits :
          (urlValid /\ ~closed /\ ZeroTimeoutWaitStep(w)) =>
              (sse' = sse /\ inflight' = inflight)]_vars

\* C13: a waitForEmail call with timeout 0 rejects with TimeoutError under
\* both strategies, whatever the inbox holds and whatever is delivered around
\* the call: the polling loop fetches nothing (no sync status was seen) and
\* the wait's callback is never handed an email.
C13_ZeroTimeoutRejectsTimeout ==
    \A w \in 1..MaxWaits :
        (waits[w].kind = "email" /\ waits[w].zero /\ waits[w].state # "free") =>
            /\ waits[w].state = "settled"
            /\ waits[w].outcome = "TimeoutError"
            /\ waits[w].lastHash = -1
            /\ ~\E k \in 1..Len(delivered) : delivered[k][1] = WaitCb(w)

\* C14: calling unsubscribe() again on a handle it was already called on is
\* a no-op under either strategy: it does not throw and leaves the registry,
\* the other registrations, the connection and the polling loops as they
\* are, whatever happened since the first call (new subscribe calls on the
\* same inbox included).  Stated for a client that is not closed and whose
\* stream URL is well formed.
C14_RepeatedUnsubscribeIsNoOp ==
    [][\A i \in Inboxes, f \in 1..NumUserFns :
          (urlValid /\ ~closed /\ UserUnsubscribeAgain(i, f)) =>
              /\ sse' = sse
              /\ pollers' = pollers
              /\ inflight' = inflight
              /\ exhausted' = exhausted]_vars

\* A step of the stream strategy, other than close(), that removes the last
\* callback of inbox i, and with it the inbox's entry in the registry.
LastCallbackRemoved(i) ==
    /\ strategyType = "sse"
    /\ sse.subscriptions[i].present
    /\ ~sse'.subscriptions[i].present
    /\ ~closed'

\* C15: removing the last callback of one inbox while another inbox still
\* has callbacks leaves the other subscription registered and re-establishes
\* the connection with exactly the remaining routing hashes; removing the
\* last callback of the last inbox leaves no connection open and no
\* reconnection pending.  Stated for a well-formed stream URL.
C15_UnsubscribeReconnectsOrCloses ==
    [][\A i \in Inboxes :
          (urlValid /\ LastCallbackRemoved(i)) =>
              LET remaining == {j \in Inboxes : sse'.subscriptions[j].present} IN
              IF remaining # {}
              THEN /\ \A j \in remaining : sse'.subscriptions[j] = sse.subscriptions[j]
                   /\ sse'.eventSource # 0
                   /\ sse'.conns[sse'.eventSource] =
                          [state |-> "connecting", hashes |-> {InboxHash(j) : j \in remaining}]
                   /\ LiveConns(sse') = {sse'.eventSource}
                   /\ sse'.reconnectTimer = 0
              ELSE /\ LiveConns(sse') = {}
                   /\ sse'.eventSource = 0
                   /\ sse'.reconnectTimer = 0]_vars

\* A step in which the message of a new email of inbox i reaches
\* handleMessage while no subscription has the inbox's hash.
UnroutedMessage(i) ==
    /\ strategyType = "sse"
    /\ Len(mailbox'[i]) > Len(mailbox[i])
    /\ \E c \in LiveConns(sse) : /\ sse.conns[c].state = "open"
                                 /\ InboxHash(i) \in sse.conns[c].hashes
    /\ \A j \in Inboxes : sse.subscriptions[j].present => InboxHash(j) # InboxHash(i)

\* C16: a stream message whose inboxId is the hash of no registered
\* subscription is dropped: no callback runs, nothing is fetched or
\* decrypted (no handleMessage stays suspended), nothing is thrown, and the
\* registry, the connections and the reconnect counter stay as they are.
C16_UnroutedMessageDropped ==
    [][\A i \in Inboxes :
          UnroutedMessage(i) =>
              /\ delivered' = delivered
              /\ inflight' = inflight
              /\ sse' = sse
              /\ exhausted' = exhausted
              /\ waits' = waits]_vars

\* C16 witness: the message of an email was dropped, on a connection that
\* is still open, and no callback has been invoked.
C16_Witness ==
    /\ dropped # {}
    /\ delivered = <<>>
    /\ inflight = {}
    /\ \E c \in LiveConns(sse) : sse.conns[c].state = "open"

\* The callbacks of the subscription object a suspended handleMessage
\* holds, in registration order.
CallbacksOf(m) == IF m.live THEN sse.subscriptions[m.inbox].callbacks ELSE m.callbacks

\* C17: when the email of a stream message that matched a subscription has
\* been decrypted, every callback registered on that subscription at that
\* moment is invoked exactly once with the email, in registration order.
C17_FanOutInRegistrationOrder ==
    [][\A m \in inflight :
          HandleMessageDelivers(m) =>
              LET cbs == CallbacksOf(m) IN
              /\ Len(delivered') = Len(delivered) + Len(cbs)
              /\ \A k \in 1..Len(cbs) :
                    delivered'[Len(delivered) + k] = <<cbs[k], m.email>>
              /\ \A k \in 1..Len(cbs), l \in 1..Len(cbs) : cbs[k] = cbs[l] => k = l]_vars

\* C17 witness: one message was fanned out to two callbacks, one after the
\* other.
C17_Witness ==
    /\ strategyType = "sse"
    /\ \E k \in 1..(Len(delivered) - 1) :
          /\ delivered[k][2] = delivered[k + 1][2]
          /\ delivered[k][1] # delivered[k + 1][1]

\* Some caller's function among cbs fails on the email.
FailsOn(cbs, email) ==
    \E k \in 1..Len(cbs) : cbs[k][1] = "u" /\ UserFnResult(cbs[k][2], email) # "returns"

\* The emails of a list a polling loop has not seen.
Unseen(key) == {e \in Range(mailbox[key[1]]) : e.id \notin pollers[key].seenEmails}

\* C18: a callback that throws or returns a rejected promise stops neither
\* the remaining callbacks of a stream fan-out nor the remaining emails of a
\* polling tick; nothing propagates, the connection and the registry are
\* not changed by it, and the polling loop goes on.
C18_CallbackFailureIsolated ==
    [][/\ \A m \in inflight :
             (HandleMessageDelivers(m) /\ FailsOn(CallbacksOf(m), EmailById(m.email))) =>
                 LET cbs == CallbacksOf(m) IN
                 /\ Len(delivered') = Len(delivered) + Len(cbs)
                 /\ exhausted' = exhausted
                 /\ (\A k \in 1..Len(cbs) : cbs[k][1] # "w") => sse' = sse
       /\ \A key \in PollerKeys :
             (/\ PollerTick(key, FALSE)
              /\ decryptEmails(mailbox[key[1]]) = "ok"
              /\ \E e \in Unseen(key) : FailsOn(<<key[2]>>, e)) =>
                 /\ {d[2] : d \in NewDeliveries} = {e.id : e \in Unseen(key)}
                 /\ pollers'[key].seenEmails = {e.id : e \in Range(mailbox[key[1]])}
                 /\ pollers'[key].pc = AfterTick(pollers[key].isActive)
                 /\ sse' = sse /\ exhausted' = exhausted]_vars

\* C18 witness: in a stream fan-out a caller's function threw on an email
\* and the callback registered after it was invoked with the same email.
C18_Witness ==
    /\ strategyType = "sse"
    /\ \E k \in 1..(Len(delivered) - 1) :
          /\ delivered[k][1][1] = "u"
          /\ UserFnResult(delivered[k][1][2], EmailById(delivered[k][2])) = "throws"
          /\ delivered[k + 1][2] = delivered[k][2]
          /\ delivered[k + 1][1] # delivered[k][1]

\* The envelope of the email does not pass verifySignature.
SignatureFails(email) ==
    decryptEmailData(EnvelopeOf(email.env)) = SignatureVerificationError

\* C19: a signature failure on an envelope a delivery strategy received is
\* surfaced to the caller as SignatureVerificationError and never silently
\* ignored: the waitForEmail calls the envelope was received for reject with
\* it, on the stream (the message's handleMessage fails) as well as when
\* polling (the fetched list holds the envelope).
C19_SignatureFailureSurfaced ==
    [][/\ \A m \in inflight :
             (HandleMessageFails(m) /\ SignatureFails(EmailById(m.email))) =>
                 \A w \in 1..MaxWaits :
                     (/\ waits[w].kind = "email" /\ waits[w].state = "pending"
                      /\ WaitCb(w) \in Range(CallbacksOf(m))) =>
                         /\ waits'[w].state = "settled"
                         /\ waits'[w].outcome = SignatureVerificationError
       /\ \A w \in 1..MaxWaits, late \in BOOLEAN :
             (/\ PollWaitList(w, HttpOk, late)
              /\ decryptEmails(mailbox[waits[w].inbox]) = SignatureVerificationError) =>
                 /\ waits'[w].state = "settled"
                 /\ waits'[w].outcome = SignatureVerificationError]_vars

\* C20: a cryptographic failure is never retried: a polling loop does not
\* fetch and verify again an email on whose envelope its decryptEmails has
\* already thrown.
C20_NoRetryAfterCryptoFailure ==
    [][\A key \in PollerKeys :
          (PollerTick(key, FALSE) /\ decryptEmails(mailbox[key[1]]) # "ok") =>
              FirstFailing(mailbox[key[1]]) \notin pollers[key].failed]_vars

IntoSleep(w) ==
    /\ waits[w].clock.timed
    /\ waits[w].pc \in {"sync", "list"}
    /\ waits'[w].pc = "sleep"

\* The iteration that is running saw a new or changed digest.
SawChange(w) ==
    \/ waits[w].pc = "list"
    \/ waits[w].lastHash = -1
    \/ Len(mailbox[waits[w].inbox]) # waits[w].lastHash

\* base * 1.5^k
GrownBackoff(base, k) == (base * Pow(3, k)) \div Pow(2, k)

\* C22: in the polling waitForEmail the interval a sleep is computed from is
\* the base interval in an iteration that saw a new or changed digest and
\* min(previous interval * backoffMultiplier, maxBackoff) in one that saw no
\* change, hence min(base * multiplier^k, maxBackoff) after k iterations in a
\* row without change; the sleep lies between the interval and
\* interval * (1 + jitterFactor), clipped to maxBackoff and to the time that
\* remains before the timeout.
C22_BackoffAndJitter ==
    [][\A w \in 1..MaxWaits :
          IntoSleep(w) =>
              LET old == waits[w].clock
                  new == waits'[w].clock
                  remaining == new.timeout - new.elapsed
              IN  /\ new.interval =
                         IF SawChange(w) THEN new.pollInterval
                         ELSE Min(TimesBackoffMultiplier(old.interval), new.maxBackoff)
                  /\ new.idle = IF SawChange(w) THEN 0 ELSE old.idle + 1
                  /\ new.idle > 0 =>
                         new.interval =
                             Min(GrownBackoff(new.pollInterval, new.idle), new.maxBackoff)
                  /\ new.waitTime >= Min(Min(new.interval, new.maxBackoff), remaining)
                  /\ new.waitTime <=
                         Min(Min(new.interval + (3 * new.interval) \div 10, new.maxBackoff),
                             remaining)]_vars

\* C22 witness: with base 2000 ms a wait sleeps for the third time in a row
\* without a change of the digest, on an interval of 6750 ms and with jitter.
C22_Witness ==
    \E w \in 1..MaxWaits :
        /\ waits[w].clock.timed
        /\ waits[w].pc = "sleep"
        /\ waits[w].clock.pollInterval = Ms(2000)
        /\ waits[w].clock.idle = 3
        /\ waits[w].clock.interval = Ms(6750)
        /\ waits[w].clock.waitTime > 0

\* C30: in the polling waitForEmail no iteration starts once the elapsed
\* time has reached the timeout, every sleep is at most
\* min(maxBackoff, time remaining before the timeout), and a wait that ends
\* with TimeoutError ends no earlier than the timeout.
C30_NoPollPastTimeout ==
    \A w \in 1..MaxWaits :
        LET ck == waits[w].clock IN
        ck.timed =>
            /\ waits[w].pc = "sync" => ck.elapsed < ck.timeout
            /\ waits[w].pc = "sleep" =>
                   /\ ck.waitTime <= Min(ck.maxBackoff, ck.timeout - ck.elapsed)
                   /\ ck.elapsed + ck.waitTime <= ck.timeout
            /\ (waits[w].state = "settled" /\ waits[w].outcome = "TimeoutError") =>
                   ck.elapsed >= ck.timeout

\* C30 witness: a wait whose last sleep was cut down to the time that
\* remained ended with TimeoutError exactly at its timeout.
C30_Witness ==
    \E w \in 1..MaxWaits :
        LET ck == waits[w].clock IN
        /\ ck.timed
        /\ waits[w].state = "settled"
        /\ waits[w].outcome = "TimeoutError"
        /\ ck.waitTime > 0
        /\ ck.waitTime < Min(ck.interval, ck.maxBackoff)
        /\ ck.elapsed = ck.timeout

(***************************************************************************)
(* Claims about calls without a delivery strategy (checked under Spec)     *)
(***************************************************************************)

\* C23: on an inbox without a delivery strategy a waitForEmail or
\* waitForEmailCount call whose request did not fail is rejected with
\* StrategyError, onNewEmail throws it, and none of them leaves a timer
\* armed or a subscription registered.
C23_NoStrategyFailsClean ==
    strategyType = "none" =>
        /\ \A w \in 1..MaxWaits :
              waits[w].state = "settled" =>
                  /\ waits[w].outcome \in {"StrategyError", "ApiError"}
                  /\ ~waits[w].timer
                  /\ ~waits[w].subscribed
        /\ \A k \in HandleKeys : handles[k] \in {"none", "StrategyError"}
        /\ \A k \in PollerKeys : pollers[k] = NoPoller
        /\ \A i \in Inboxes : ~sse.subscriptions[i].present

(***************************************************************************)
(* Claims about importInbox (checked under SpecImport)                     *)
(***************************************************************************)

\* The address is being imported by a call suspended in ensureInitialized.
BeingImported(emailAddress) ==
    \E b \in 1..MaxImports :
        /\ client.imports[b].pc = "initializing"
        /\ client.imports[b].data.emailAddress = emailAddress

\* C24: importInbox with well-formed data for an address the client tracks,
\* or an address a concurrent importInbox call is importing, throws
\* InboxAlreadyExistsError, and no step replaces the inbox tracked for an
\* address with another inbox.
C24_ImportNeverReplaces ==
    [][/\ \A c \in 1..MaxImports, data \in ImportDataSet :
             (/\ ImportInbox(c, data)
              /\ data.fields = "ok"
              /\ \/ client.inboxes[data.emailAddress] # NoInbox
                 \/ BeingImported(data.emailAddress)) =>
                 client'.imports[c].outcome = "InboxAlreadyExistsError"
       /\ \A i \in Inboxes :
             client.inboxes[i] # NoInbox =>
                 client'.inboxes[i] \in {client.inboxes[i], NoInbox}]_vars

(***************************************************************************)
(* Claims about the connections of the stream strategy                     *)
(* (checked under SpecRegistry)                                            *)
(***************************************************************************)

\* C25: at every moment the stream strategy holds at most one connection
\* that is not closed: every EventSource it has created, other than the one
\* in its eventSource field, has been closed.
C25_AtMostOneConnection ==
    /\ Cardinality(LiveConns(sse)) <= 1
    /\ \A c \in LiveConns(sse) : c = sse.eventSource

\* C26: whenever the stream strategy has an open connection, the routing
\* hashes that connection was opened with are the non-empty routing hashes
\* of the subscriptions in the registry.
C26_ConnectionMatchesRegistry ==
    \A c \in LiveConns(sse) :
        sse.conns[c].state = "open" => sse.conns[c].hashes = SubscribedHashes(sse)

\* C27: on a connection error with reconnectAttempts < maxReconnectAttempts
\* the stream strategy tears down the connection and leaves one reconnection
\* scheduled, after reconnectInterval * backoffMultiplier^reconnectAttempts;
\* the retry increments reconnectAttempts; a successful open resets it to 0,
\* so the reconnection scheduled by an error on an open connection waits
\* reconnectInterval.
C27_ReconnectBackoff ==
    [][/\ \A c \in DOMAIN sse.conns, fatal \in BOOLEAN :
             (/\ OnError(c, fatal)
              /\ ~sse.isClosing
              /\ sse.reconnectAttempts < sse.maxReconnectAttempts) =>
                 /\ sse'.eventSource = 0
                 /\ sse'.reconnectTimer =
                        reconnectInterval * Pow(backoffMultiplier, sse.reconnectAttempts)
                 /\ sse'.reconnectAttempts = sse.reconnectAttempts
                 /\ sse.conns[c].state = "open" => sse'.reconnectTimer = reconnectInterval
       /\ ReconnectTimerFires => sse'.reconnectAttempts = sse.reconnectAttempts + 1
       /\ \A c \in DOMAIN sse.conns : OnOpen(c) => sse'.reconnectAttempts = 0]_vars

\* The strategy constructs an EventSource in this step.
NewEventSource ==
    /\ sse'.eventSource # 0
    /\ \/ sse'.eventSource # sse.eventSource
       \/ sse.conns[sse.eventSource].state = "closed"

C29_NothingAfterClose ==
    [][(strategyType = "sse" /\ sse.isClosing) =>
          /\ LiveConns(sse) = {}
          /\ sse.reconnectTimer = 0
          /\ LiveConns(sse') = {}
          /\ sse'.reconnectTimer = 0
          /\ exhausted' # exhausted => exhausted'.where = "missed"
          /\ \A k \in HandleKeys : handles'[k] # handles[k] => handles'[k] # "SSEError"]_vars

\* C31: in the polling waitForEmail the list of emails is fetched and
\* decrypted only in an iteration whose digest differs from the recorded one
\* (or the first) and whose emailCount is positive; with an unchanged digest
\* the iteration fetches nothing; after the snapshot of an iteration the
\* recorded digest is the digest of that snapshot.
C31_ListOnlyOnChange ==
    [][\A w \in 1..MaxWaits, late \in BOOLEAN :
          PollWaitSync(w, HttpOk, late) =>
              LET digest == Len(mailbox[waits[w].inbox])
                  changed == waits[w].lastHash = -1 \/ digest # waits[w].lastHash
              IN  /\ waits'[w].pc = "list" <=> (changed /\ digest > 0)
                  /\ waits'[w].lastHash = digest]_vars

\* C31 witness: an iteration on an inbox that holds emails found the digest
\* unchanged and went to sleep without fetching the list.
C31_Witness ==
    \E w \in 1..MaxWaits :
        /\ waits[w].pc = "sleep"
        /\ waits[w].lastHash > 0
        /\ waits[w].lastHash = Len(mailbox[waits[w].inbox])
        /\ waits[w].clock.idle >= 1

\* C32: a polling subscription invokes its callback at most once per email
\* id, however many ticks return the email (a tick invokes it only for ids
\* not in seenEmails, once each, and records them; seenEmails never loses
\* an id while the subscription lasts), and a tick whose list was fetched
\* and decrypted invokes it exactly once for every email not seen before.
C32_OncePerItem ==
    [][\A key \in PollerKeys :
          /\ \A fails \in BOOLEAN :
                PollerTick(key, fails) =>
                    LET ids == {d[2] : d \in NewDeliveries} IN
                    /\ \A d \in NewDeliveries : d[1] = key[2]
                    /\ Len(delivered') - Len(delivered) = Cardinality(ids)
                    /\ ids \cap pollers[key].seenEmails = {}
                    /\ pollers'[key].seenEmails = pollers[key].seenEmails \cup ids
                    /\ (~fails /\ decryptEmails(mailbox[key[1]]) = "ok") =>
                           ids = {e.id : e \in Unseen(key)}
          /\ \/ pollers[key].seenEmails \subseteq pollers'[key].seenEmails
             \/ pollers'[key] = StartPoller]_vars

\* C32 witness: a polling subscription that has been invoked for both emails
\* of its inbox, once each, is about to fetch the list again.
C32_Witness ==
    \E key \in PollerKeys :
        /\ pollers[key].pc = "fetch"
        /\ pollers[key].isActive
        /\ Cardinality(pollers[key].seenEmails) = MaxEmails
        /\ \A id \in pollers[key].seenEmails :
              Cardinality({k \in 1..Len(delivered) : delivered[k] = <<key[2], id>>}) = 1

\* C33: waitForEmailCount(n) resolves only in a step in which a count check
\* (the initial getSyncStatus or one made by the callback) observes
\* emailCount >= n; when the initial check observes it the call returns
\* with no timer armed and no subscription registered.
C33_ResolvesOnObservedCount ==
    [][\A w \in 1..MaxWaits :
          /\ (/\ waits[w].kind = "count" /\ waits[w].outcome # "ok"
              /\ waits'[w].kind = "count" /\ waits'[w].outcome = "ok") =>
                 /\ Len(mailbox[waits[w].inbox]) >= waits[w].count
                 /\ WaitCountSynced(w, FALSE) \/ CountCheckDone(w, FALSE)
          /\ (/\ WaitCountSynced(w, FALSE)
              /\ Len(mailbox[waits[w].inbox]) >= waits[w].count) =>
                 /\ waits'[w].state = "settled" /\ waits'[w].outcome = "ok"
                 /\ ~waits'[w].timer /\ ~waits'[w].subscribed
                 /\ sse' = sse /\ pollers' = pollers]_vars

\* C33 witness: a waitForEmailCount call whose initial check found too few
\* emails was resolved by a count check of its callback.
C33_Witness ==
    \E w \in 1..MaxWaits :
        /\ waits[w].kind = "count"
        /\ waits[w].state = "settled" /\ waits[w].outcome = "ok"
        /\ waits[w].subscribed

\* The server signing key an Inbox is constructed with (the serverSigPk of
\* the gateway's createInbox answer, or of the imported data once it was
\* compared with the client's): the gateway's key.
PinnedKey == "server"

\* C34: decryptEmailData accepts (verifies and decrypts) envelopes only
\* when the key their signatures are verified with is the server signing
\* key pinned for the inbox: a call that returns an email was given no
\* envelope that carries another key in server_sig_pk, validly signed under
\* that key or not.
C34_PinnedKeyOnly ==
    (cApi = "decryptEmailData" /\ cPc = "done" /\ cOut = "ok") =>
        \A k \in 1..Len(cEnvs) : cEnvs[k].server_sig_pk = PinnedKey

\* An email that reaches inbox i is announced to the strategy: one of its
\* EventSource objects is open on a URL that names the inbox's hash.  The
\* gateway announces an email once, on the connections open at that
\* moment; the strategy asks for nothing it missed.
Announced(S, i) ==
    \E c \in LiveConns(S) : S.conns[c].state = "open" /\ InboxHash(i) \in S.conns[c].hashes

\* C35: subscribing or unsubscribing one inbox on the shared stream loses
\* no email of another inbox whose Subscription stays registered: if the
\* emails of that inbox were announced to the strategy before the call,
\* they are announced after it.
C35_OtherInboxKeepsStream ==
    [][\A i \in Inboxes : \A j \in Inboxes \ {i}, f \in 1..NumUserFns :
          (/\ UserSubscribe(j, f) \/ UserUnsubscribe(j, f)
           /\ sse.subscriptions[i].present /\ sse'.subscriptions[i].present
           /\ Announced(sse, i)) =>
              Announced(sse', i)]_vars

\* C36: the two strategies yield the same outcome of waitForEmail for the
\* same inbox history, filter and timeout.  With the emails in the inbox
\* when the call starts and a timeout that is not 0, a wait that ends with
\* an email or with TimeoutError ends, on either strategy, with the first
\* email of the inbox that matches the filter when there is one, and with
\* TimeoutError when there is none.
C36_SameOutcome ==
    \A w \in 1..MaxWaits :
        (/\ waits[w].kind = "email" /\ waits[w].state = "settled"
         /\ waits[w].outcome \in {"email", "TimeoutError"}) =>
            LET m == findMatchingEmail(mailbox[waits[w].inbox], waits[w].options) IN
            IF waits[w].zero \/ m = NoEmail
            THEN waits[w].outcome = "TimeoutError"
            ELSE waits[w].outcome = "email" /\ waits[w].email = m.id

\* The strategy instances setStrategy gave to the Inbox objects the
\* createInbox and importInbox calls have returned.
BoundStrategies ==
    {client.creates[c].bound : c \in {d \in 1..MaxCreates : client.creates[d].outcome = "inbox"}}
    \cup {client.imports[c].bound : c \in {d \in 1..MaxImports : client.imports[d].outcome = "inbox"}}

\* C37: a client creates at most one delivery strategy in its lifetime;
\* every inbox it has created or imported, by concurrent calls on a fresh
\* client as well, is bound to that instance, and close() closes no other.
C37_OneStrategy ==
    /\ client.strategies <= 1
    /\ BoundStrategies \subseteq {client.strategy} \ {0}
    /\ client.closedStrategies \subseteq {client.strategy}

\* C38: two subscribe calls on the same inbox yield independent
\* registrations, whatever callbacks are passed, the same function twice
\* included: every subscribe call that returns a handle adds one
\* registration to the inbox, that is, one invocation per message.
C38_IndependentRegistrations ==
    [][\A i \in Inboxes, f \in 1..NumUserFns :
          (/\ strategyType = "sse"
           /\ UserSubscribe(i, f)
           /\ handles'[<<i, f>>] \in {"active", "renewed"}) =>
              Len(sse'.subscriptions[i].callbacks) = Len(sse.subscriptions[i].callbacks) + 1]_vars

\* C39: in a polling subscription an email whose verification or decryption
\* fails does not keep the other emails of the inbox from being delivered:
\* a tick whose list holds such an email still invokes the callback for
\* every other email not seen before.
C39_FailingItemIsolated ==
    [][\A key \in PollerKeys :
          (PollerTick(key, FALSE) /\ decryptEmails(mailbox[key[1]]) # "ok") =>
              {d[2] : d \in NewDeliveries} =
                  {e.id : e \in {u \in Unseen(key) : decryptEmailData(EnvelopeOf(u.env)) = "ok"}}]_vars

\* C40: when subscribe of the stream strategy fails with an error, the
\* registry is left as it was before the call: no callback stays registered
\* for which the caller received no handle.
C40_FailedSubscribeLeavesRegistry ==
    [][\A i \in Inboxes, f \in 1..NumUserFns :
          (/\ strategyType = "sse"
           /\ UserSubscribe(i, f)
           /\ handles'[<<i, f>>] = "SSEError") =>
              sse'.subscriptions = sse.subscriptions]_vars

====
